---------------------------- MODULE Spec2Model ----------------------------
(***************************************************************************)
(* Quizzit: a timed trivia round run by a Telegram bot.                    *)
(*                                                                         *)
(* The model follows src/src/commands/quiz.py and src/src/commands/teams.py*)
(* One asyncio event loop runs everything, so the code between two awaits  *)
(* is one atomic step.  Updates are dispatched one at a time (the          *)
(* Application is built without concurrent_updates and the handlers are    *)
(* blocking, src/src/main.py:625-635), so at most one command or message   *)
(* handler is in flight; the tasks made by asyncio.create_task (reveal     *)
(* ticks, the timeout, the mute expiry) run in the background and          *)
(* interleave with the handler at every await.                             *)
(*                                                                         *)
(* Time is relative: every sleeping coroutine holds the seconds it still   *)
(* has to sleep and Tick lets one second pass.  A pure asyncio.sleep of a  *)
(* background task fires at its deadline (Tick is disabled while one is    *)
(* due); a coroutine that awaits the transport may resume at any later     *)
(* time.                                                                   *)
(***************************************************************************)
EXTENDS Integers, Naturals, Sequences, FiniteSets, TLC

VARIABLES
    bank,               \* the content of questions.json (_load_questions)
    players,            \* context.chat_data["players"] (keys)
    cur,                \* identity of context.chat_data["quiz"], 0 = absent
    ndicts,             \* number of quiz dicts created so far
    quiz,               \* per quiz dict: the keys that closures read
    scores,             \* quiz["scores"] of the current dict
    teams,              \* quiz["teams"] of the current dict
    mute_enabled,       \* quiz["mute_enabled"]
    mute_uses,          \* quiz["mute_uses"]
    double_tags,        \* quiz["double_tags"]
    last_winning_team,  \* quiz["last_winning_team"]
    winning_streak,     \* quiz["winning_streak"]
    tasks,              \* the live asyncio tasks
    h,                  \* the handler in flight
    budget,             \* commands the environment may still issue
    ev,                 \* what the last observable step did (observation only)
    hist,               \* what happened to each question since the last /start,
                        \* and the ticks of the question being asked
                        \* (observation only)
    hint_usage          \* context.chat_data["hint_usage"], and per user the
                        \* hints that were DMed (observation only)

vars == << bank, players, cur, ndicts, quiz, scores, teams, mute_enabled,
           mute_uses, double_tags, last_winning_team, winning_streak,
           tasks, h, budget, ev, hist, hint_usage >>

-----------------------------------------------------------------------------
(* Program constants *)

INITIAL_POINTS == 5

\* ratio is kept in tenths: 0.0, 0.2, 0.4, 0.6
\* Steps whose reveal ratio goes down with time
HINT_POINT_STEPS_Shrinking ==
    << [time |-> 7,  ratio |-> 6, points |-> 4],
       [time |-> 14, ratio |-> 4, points |-> 3],
       [time |-> 21, ratio |-> 2, points |-> 2],
       [time |-> 28, ratio |-> 0, points |-> 1] >>

\* Steps whose last tick reveals everything
HINT_POINT_STEPS_Full ==
    << [time |-> 7,  ratio |-> 0, points |-> 4],
       [time |-> 14, ratio |-> 2, points |-> 3],
       [time |-> 21, ratio |-> 4, points |-> 2],
       [time |-> 28, ratio |-> 10, points |-> 1] >>

HINT_POINT_STEPS ==
    << [time |-> 7,  ratio |-> 0, points |-> 4],
       [time |-> 14, ratio |-> 2, points |-> 3],
       [time |-> 21, ratio |-> 4, points |-> 2],
       [time |-> 28, ratio |-> 6, points |-> 1] >>

FINAL_REVEAL_TIME == 35

COUNTDOWN_SLEEP == 5

MUTE_SECONDS == 20

QUIZ_DELAY_SECONDS == 10

-----------------------------------------------------------------------------
(* Bounds of the model *)

NumUsers == 2

MaxDicts == 3

MaxRestarts == 1

MaxGroups == 1

MaxGives == 1

MaxGrant == 1

MaxTagCmds == 2

MaxKnown == 3

MaxTeamPoints == 1

Users == 1..NumUsers

DictIds == 1..MaxDicts

Labels == {"A", "B"}

Tags == {"geo", "sci"}

-----------------------------------------------------------------------------
(* Text: a string is a sequence of one-character strings *)

IsSpace(ch) == ch = " "

LowerChar(ch) ==
    CASE ch = "A" -> "a"
      [] ch = "B" -> "b"
      [] OTHER -> ch

RECURSIVE LStrip(_)
LStrip(s) ==
    IF s # <<>> /\ IsSpace(Head(s)) THEN LStrip(Tail(s)) ELSE s

RECURSIVE RStrip(_)
RStrip(s) ==
    IF s # <<>> /\ IsSpace(s[Len(s)])
    THEN RStrip(SubSeq(s, 1, Len(s) - 1))
    ELSE s

Strip(s) == RStrip(LStrip(s))

Lower(s) == [i \in 1..Len(s) |-> LowerChar(s[i])]

Normalize(text) == Lower(Strip(text))

\* A mask that treats a blank like any hidden character
BuildProgressiveHint_MaskAll(answer, revealed) ==
    Strip([ i \in 1..2 * Len(answer) |->
              IF i % 2 = 0 THEN " "
              ELSE IF (i + 1) \div 2 \in revealed
                   THEN answer[(i + 1) \div 2] ELSE "_" ])

\* The pieces _build_progressive_hint appends for the characters from
\* position i on: two blanks for a blank, the character when revealed,
\* "_ " otherwise.  Positions count from 1.
RECURSIVE Masked(_, _, _)
Masked(answer, revealed, i) ==
    IF i > Len(answer) THEN <<>>
    ELSE ( IF IsSpace(answer[i]) THEN <<" ", " ">>
           ELSE IF i \in revealed THEN <<answer[i]>>
           ELSE <<"_", " ">> ) \o Masked(answer, revealed, i + 1)

\* _build_progressive_hint: "".join(masked).strip()
BuildProgressiveHint(answer, revealed) == Strip(Masked(answer, revealed, 1))

\* The messages participants send
Texts == { <<" ", "A">>, <<"b">>, <<"z">> }

\* questions.json of the round specification
MainBank ==
    << [answer |-> <<"A">>, alternative |-> {}, tags |-> {"geo", "sci"}],
       [answer |-> <<"b">>, alternative |-> { <<"B", " ">> }, tags |-> {}] >>

\* A matcher for which every message is an expected value
ExpectedValues_Anything(question) == { Normalize(text) : text \in Texts }

ExpectedValues(question) ==
    { Normalize(question.answer) }
        \cup { Normalize(item) : item \in question.alternative }

-----------------------------------------------------------------------------
(* Round state helpers *)

EmptyQuiz ==
    [ has_q          |-> FALSE,
      index          |-> 0,
      generation     |-> 0,
      answered       |-> FALSE,
      accepting      |-> FALSE,
      q_age          |-> -1,      \* seconds since question_start_ts, -1 = None
      current_points |-> 0,       \* 0 = key absent
      revealed       |-> {},
      hint_gen       |-> 0,       \* generation of the tasks in hint_tasks, 0 = none
      muted_team     |-> "none",
      muted_left     |-> 0,       \* seconds until muted_until, 0 = reached
      team_scores    |-> [A |-> 0, B |-> 0] ]   \* written by /add

NoTeams == [A |-> {}, B |-> {}]

NoFlags == [A |-> FALSE, B |-> FALSE]

NoUses == [A |-> 0, B |-> 0]

NoTags == [A |-> {}, B |-> {}]

NoScores == [u \in Users |-> 0]

\* usage.setdefault(user.id, {"count": 0, "questions": set()}); delivered is
\* the list of question indices of the hints that were DMed to the user
NoUsage ==
    [u \in Users |-> [count |-> 0, questions |-> {}, delivered |-> <<>>]]

\* _is_stale without the test of "answered"
IsStale_GenerationOnly(q, generation) == q.generation # generation

IsStale(q, generation) == q.generation # generation \/ q.answered

IsAcceptingAnswers(q) == q.accepting /\ ~q.answered

PointsForElapsed(seconds) ==
    IF seconds < HINT_POINT_STEPS[1].time
    THEN INITIAL_POINTS
    ELSE LET reached == { i \in 1..Len(HINT_POINT_STEPS) :
                            \A j \in 1..i : seconds >= HINT_POINT_STEPS[j].time }
             Max(S) == CHOOSE x \in S : \A y \in S : y <= x
         IN  HINT_POINT_STEPS[Max(reached)].points

Ceil10(n) == (n + 9) \div 10

Revealable(answer) == { i \in 1..Len(answer) : ~IsSpace(answer[i]) }

Perms(S) ==
    { p \in [1..Cardinality(S) -> S] :
        \A i, j \in 1..Cardinality(S) : p[i] = p[j] => i = j }

UserLabel(u) ==
    IF u \in teams.A THEN "A" ELSE IF u \in teams.B THEN "B" ELSE "none"

Other(label) == IF label = "B" THEN "A" ELSE "B"

-----------------------------------------------------------------------------
(* Coroutines: the handler in flight and the background tasks *)

Idle ==
    [ pc |-> "idle", u |-> 0, text |-> <<>>, idx |-> 0, wake |-> 0,
      qd |-> 0, gen |-> 0, sgen |-> 0 ]

\* A background task.  d and gen are the chat_data and generation captured by
\* the closure, order its reveal_order; qd, idx and sgen are the locals of a
\* send_question call the task is suspended in.
Task(kind, d, gen, k, wake, order) ==
    [ kind |-> kind, d |-> d, gen |-> gen, k |-> k, pc |-> "sleep",
      wake |-> wake, order |-> order, label |-> "none",
      qd |-> 0, idx |-> 0, sgen |-> 0 ]

NoTask == Task("none", 0, 0, 0, 0, <<>>)

Ev(type) ==
    [ type |-> type, d |-> 0, gen |-> 0, k |-> 0, u |-> 0, idx |-> 0,
      qidx |-> 0, base |-> 0, recomputed |-> 0, pts |-> 0, match |-> FALSE,
      sent |-> "none", stale |-> FALSE, lazy |-> FALSE ]

Hist(d, gen, idx, what) ==
    [d |-> d, gen |-> gen, idx |-> idx, k |-> 0, what |-> what]

\* hist keeps what the tasks of the current round do
Note(d, entry) == IF d = cur THEN {entry} ELSE {}

\* A cancellation that takes the mute expiry tasks of the round with it
CancelPendingTasks_WithMute(ts, d, self) ==
    { t \in ts : ~ ( t.d = d /\ t # self ) }

\* A cancellation that does not spare the task that performs it
CancelPendingTasks_Self(ts, d, self) ==
    { t \in ts :
        ~ ( /\ t.kind \in {"hint", "timeout"}
            /\ t.d = d
            /\ quiz[d].hint_gen # 0
            /\ t.gen = quiz[d].hint_gen ) }

\* _cancel_pending_tasks(chat_data) called by `self`: every task of the popped
\* hint_tasks list that is not the caller and not done is cancelled.  A
\* cancelled task ends at the await it is suspended in.
CancelPendingTasks(ts, d, self) ==
    { t \in ts :
        ~ ( /\ t.kind \in {"hint", "timeout"}
            /\ t.d = d
            /\ quiz[d].hint_gen # 0
            /\ t.gen = quiz[d].hint_gen
            /\ t # self ) }

ResetQuestionState(q, next_index) ==
    [ q EXCEPT !.index = next_index,
               !.generation = q.generation + 1,
               !.answered = FALSE,
               !.accepting = FALSE,
               !.q_age = -1,
               !.current_points = INITIAL_POINTS,
               !.hint_gen = 0,
               !.revealed = {} ]

\* send_question up to its first await.  next_index = -1 stands for None.
\*   "error"  quiz["questions"] raises KeyError (no round state)
\*   "scores" the list is exhausted: show_scores is awaited
\*   "sendq"  the question state is reset and the question is being sent
SendQuestionBegin(next_index, self) ==
    IF cur = 0 \/ ~quiz[cur].has_q
    THEN [kind |-> "error", quiz |-> quiz, tasks |-> tasks,
          qd |-> 0, idx |-> 0, sgen |-> 0]
    ELSE LET n == IF next_index = -1 THEN quiz[cur].index ELSE next_index
         IN  IF n >= Len(bank)
             THEN [kind |-> "scores", quiz |-> quiz, tasks |-> tasks,
                   qd |-> cur, idx |-> n, sgen |-> 0]
             ELSE [kind |-> "sendq",
                   quiz |-> [quiz EXCEPT ![cur] = ResetQuestionState(@, n)],
                   tasks |-> CancelPendingTasks(tasks, cur, self),
                   qd |-> cur, idx |-> n,
                   sgen |-> quiz[cur].generation + 1]

\* _schedule_hints: one reveal task per step and the timeout task
ScheduleHints(d, generation, order) ==
    { Task("hint", d, generation, k, HINT_POINT_STEPS[k].time, order) :
        k \in 1..Len(HINT_POINT_STEPS) }
    \cup { Task("timeout", d, generation, 0, FINAL_REVEAL_TIME, order) }

CountdownSleep == IF QUIZ_DELAY_SECONDS > 0 THEN COUNTDOWN_SLEEP ELSE 0

RoundVars == << scores, teams, mute_enabled, mute_uses, double_tags,
                last_winning_team, winning_streak >>

-----------------------------------------------------------------------------
(* Initial state: the bot has just been started *)

InitCommon ==
    /\ players = Users
    /\ cur = 0
    /\ ndicts = 0
    /\ quiz = [d \in DictIds |-> EmptyQuiz]
    /\ scores = NoScores
    /\ teams = NoTeams
    /\ mute_enabled = NoFlags
    /\ mute_uses = NoUses
    /\ double_tags = NoTags
    /\ last_winning_team = "none"
    /\ winning_streak = 0
    /\ tasks = {}
    /\ h = Idle
    /\ ev = Ev("init")
    /\ hist = {}

Budget(starts, groups, gives, tagcmds) ==
    [starts |-> starts, groups |-> groups, gives |-> gives, tagcmds |-> tagcmds]

\* The round alone: /start (and restarts), messages, timers
Init ==
    /\ bank = MainBank
    /\ hint_usage = NoUsage
    /\ budget = Budget(1 + MaxRestarts, 0, 0, 0)
    /\ InitCommon

-----------------------------------------------------------------------------
(* /start *)

\* start up to its first await: a new quiz dict replaces the old one
\* A restart that keeps nothing of the silence in force
NewQuiz_Fresh(old) == [EmptyQuiz EXCEPT !.has_q = TRUE]

\* start: new_quiz with the preserved muted_team and muted_until
NewQuiz(old) ==
    [EmptyQuiz EXCEPT !.has_q = TRUE,
                      !.muted_team = old.muted_team,
                      !.muted_left = old.muted_left]

start ==
    /\ h.pc = "idle"
    /\ budget.starts > 0
    /\ ndicts < MaxDicts
    /\ budget' = [budget EXCEPT !.starts = @ - 1]
    /\ LET new == ndicts + 1
           old == IF cur = 0 THEN EmptyQuiz ELSE quiz[cur]
       IN  /\ ndicts' = new
           /\ cur' = new
           /\ quiz' = [quiz EXCEPT ![new] = NewQuiz(old)]
    /\ scores' = NoScores
    /\ last_winning_team' = "none"
    /\ winning_streak' = 0
    /\ h' = [Idle EXCEPT !.pc = "start_cd", !.wake = CountdownSleep]
    /\ ev' = [Ev("start") EXCEPT !.d = ndicts + 1, !.sent = "quiz_time"]
    /\ hist' = {}
    /\ UNCHANGED << hint_usage, bank, players, teams, mute_enabled, mute_uses,
                    double_tags, tasks >>

-----------------------------------------------------------------------------
(* send_question, called by the handler (self = NoTask) or by a timeout task *)

SendQuestionCall(self, next_index, evtype, hentry) ==
    LET r == SendQuestionBegin(next_index, self)
        frame(c) == [c EXCEPT !.pc = r.kind, !.wake = 0, !.qd = r.qd,
                              !.idx = r.idx, !.sgen = r.sgen]
    IN  /\ quiz' = r.quiz
        /\ IF self = NoTask
           THEN /\ h' = IF r.kind = "error" THEN Idle ELSE frame(h)
                /\ tasks' = r.tasks
           ELSE /\ h' = h
                /\ tasks' = (r.tasks \ {self}) \cup
                              (IF r.kind = "error" \/ self \notin r.tasks
                               THEN {} ELSE {frame(self)})
        /\ ev' = [Ev(evtype) EXCEPT !.d = self.d, !.gen = self.gen,
                                    !.idx = r.idx,
                                    !.sent = IF r.kind = "scores"
                                             THEN "scores" ELSE "none"]
        /\ hist' = CASE r.kind = "error" -> hist
                      [] r.kind = "scores" -> hist \cup hentry
                      [] OTHER -> { e \in hist :
                                      e.what \notin {"tick", "tick_failed"} }
                                    \cup hentry
        /\ UNCHANGED << hint_usage, bank, budget, players, cur, ndicts, RoundVars >>

\* send_question after the question was delivered: open for answers, arm timers
SendQuestionFinish(self, c) ==
    /\ c.pc = "sendq"
    /\ LET answer == bank[c.idx + 1].answer
       IN  \E order \in Perms(Revealable(answer)) :
             /\ quiz' = [quiz EXCEPT ![c.qd].q_age = 0,
                                     ![c.qd].accepting = TRUE,
                                     ![c.qd].hint_gen =
                                         IF answer = <<>> THEN @ ELSE c.sgen]
             /\ LET armed == IF answer = <<>> THEN {}
                             ELSE ScheduleHints(c.qd, c.sgen, order)
                IN  IF self = NoTask
                    THEN /\ tasks' = tasks \cup armed
                         /\ h' = Idle
                    ELSE /\ tasks' = (tasks \ {self}) \cup armed
                         /\ h' = h
    /\ ev' = [Ev("question_sent") EXCEPT !.d = c.qd, !.gen = c.sgen,
                                         !.idx = c.idx, !.sent = "question"]
    /\ UNCHANGED << hint_usage, bank, budget, players, cur, ndicts, RoundVars, hist >>

\* send_question after show_scores: _clear_quiz_state pops the quiz dict
SendQuestionClear(self, c) ==
    /\ c.pc = "scores"
    /\ cur' = 0
    /\ scores' = NoScores
    /\ teams' = NoTeams
    /\ mute_enabled' = NoFlags
    /\ mute_uses' = NoUses
    /\ double_tags' = NoTags
    /\ last_winning_team' = "none"
    /\ winning_streak' = 0
    /\ IF self = NoTask
       THEN h' = Idle /\ tasks' = tasks
       ELSE h' = h /\ tasks' = tasks \ {self}
    /\ ev' = [Ev("finalized") EXCEPT !.d = c.qd]
    /\ UNCHANGED << hint_usage, bank, budget, players, ndicts, quiz, hist >>

\* send_question when delivering the question raises: the except clause marks
\* the question answered; it is not opened and no timer is armed
SendQuestionFails(self, c) ==
    /\ c.pc = "sendq"
    /\ quiz' = [quiz EXCEPT ![c.qd].answered = TRUE]
    /\ IF self = NoTask
       THEN h' = Idle /\ tasks' = tasks
       ELSE h' = h /\ tasks' = tasks \ {self}
    /\ ev' = [Ev("question_failed") EXCEPT !.d = c.qd, !.gen = c.sgen,
                                           !.idx = c.idx, !.sent = "failed"]
    /\ UNCHANGED << hint_usage, bank, budget, players, cur, ndicts, RoundVars, hist >>

StartSendQuestion ==
    /\ h.pc = "start_cd"
    /\ h.wake = 0
    /\ SendQuestionCall(NoTask, -1, "start_send", {})

HandlerQuestionSent == SendQuestionFinish(NoTask, h)

HandlerFinalize == SendQuestionClear(NoTask, h)

HandlerQuestionFails == SendQuestionFails(NoTask, h)

-----------------------------------------------------------------------------
(* The background tasks of a question *)

\* _send_hint after its sleep
HintFire(t) ==
    /\ t.kind = "hint"
    /\ t.pc = "sleep"
    /\ t.wake = 0
    /\ tasks' = tasks \ {t}
    /\ IF IsStale(quiz[t.d], t.gen)
       THEN /\ quiz' = quiz
            /\ hist' = hist
            /\ ev' = [Ev("hint") EXCEPT !.d = t.d, !.gen = t.gen, !.k = t.k,
                                        !.stale = TRUE]
       ELSE LET step == HINT_POINT_STEPS[t.k]
                target_count == Ceil10(Len(t.order) * step.ratio)
                revealed == { t.order[i] : i \in 1..target_count }
            IN  /\ quiz' = [quiz EXCEPT ![t.d].revealed = revealed,
                                        ![t.d].current_points = step.points]
                /\ hist' = hist \cup
                             Note(t.d, [Hist(t.d, t.gen, quiz[t.d].index,
                                             "tick") EXCEPT !.k = t.k])
                /\ ev' = [Ev("hint") EXCEPT !.d = t.d, !.gen = t.gen,
                                            !.k = t.k, !.sent = "hint"]
    /\ UNCHANGED << hint_usage, bank, budget, players, cur, ndicts, RoundVars, h >>

\* _timeout_reveal after its sleep: mark answered, announce the answer
TimeoutFire(t) ==
    /\ t.kind = "timeout"
    /\ t.pc = "sleep"
    /\ t.wake = 0
    /\ IF IsStale(quiz[t.d], t.gen)
       THEN /\ quiz' = quiz
            /\ tasks' = tasks \ {t}
            /\ hist' = hist
            /\ ev' = [Ev("timeout") EXCEPT !.d = t.d, !.gen = t.gen,
                                           !.stale = TRUE]
       ELSE /\ quiz' = [quiz EXCEPT ![t.d].answered = TRUE]
            /\ tasks' = (tasks \ {t}) \cup
                          {[t EXCEPT !.pc = "countdown", !.wake = CountdownSleep]}
            /\ hist' = hist \cup
                         Note(t.d, Hist(t.d, t.gen, quiz[t.d].index,
                                        "announce"))
            /\ ev' = [Ev("timeout") EXCEPT !.d = t.d, !.gen = t.gen,
                                           !.idx = quiz[t.d].index,
                                           !.sent = "no_one_guessed"]
    /\ UNCHANGED << hint_usage, bank, budget, players, cur, ndicts, RoundVars, h >>

\* _timeout_reveal after the countdown: send_question(index + 1)
TimeoutAdvance(t) ==
    /\ t.kind = "timeout"
    /\ t.pc = "countdown"
    /\ t.wake = 0
    /\ SendQuestionCall(t, quiz[t.d].index + 1, "timeout_advance",
                        Note(t.d, Hist(t.d, t.gen, quiz[t.d].index,
                                       "adv_timeout")))

TimeoutQuestionSent(t) ==
    /\ t.kind = "timeout"
    /\ SendQuestionFinish(t, t)

TimeoutFinalize(t) ==
    /\ t.kind = "timeout"
    /\ SendQuestionClear(t, t)

TimeoutQuestionFails(t) ==
    /\ t.kind = "timeout"
    /\ SendQuestionFails(t, t)

\* What is left of the tasks when the send of a fired reveal tick raises
HintFailure_StopsTimers(ts, t) ==
    { x \in ts : ~ ( x.kind \in {"hint", "timeout"} /\ x.d = t.d ) }

\* except Exception in _send_hint: the warning is logged and the task ends
HintFailure(ts, t) == ts \ {t}

\* _send_hint after its sleep when the send of the hint raises
HintSendFails(t) ==
    /\ t.kind = "hint"
    /\ t.pc = "sleep"
    /\ t.wake = 0
    /\ ~IsStale(quiz[t.d], t.gen)
    /\ tasks' = HintFailure(tasks, t)
    /\ LET step == HINT_POINT_STEPS[t.k]
           target_count == Ceil10(Len(t.order) * step.ratio)
           revealed == { t.order[i] : i \in 1..target_count }
       IN  /\ quiz' = [quiz EXCEPT ![t.d].revealed = revealed,
                                   ![t.d].current_points = step.points]
           /\ hist' = hist \cup
                        Note(t.d, [Hist(t.d, t.gen, quiz[t.d].index,
                                        "tick_failed") EXCEPT !.k = t.k])
           /\ ev' = [Ev("hint") EXCEPT !.d = t.d, !.gen = t.gen,
                                       !.k = t.k, !.sent = "failed"]
    /\ UNCHANGED << hint_usage, bank, budget, players, cur, ndicts, RoundVars, h >>

\* _timeout_reveal after its sleep when the announcement raises: the outer
\* except clause logs the warning and the task ends
TimeoutAnnounceFails(t) ==
    /\ t.kind = "timeout"
    /\ t.pc = "sleep"
    /\ t.wake = 0
    /\ ~IsStale(quiz[t.d], t.gen)
    /\ quiz' = [quiz EXCEPT ![t.d].answered = TRUE]
    /\ tasks' = tasks \ {t}
    /\ ev' = [Ev("timeout") EXCEPT !.d = t.d, !.gen = t.gen,
                                   !.idx = quiz[t.d].index,
                                   !.sent = "failed"]
    /\ UNCHANGED << hint_usage, bank, budget, players, cur, ndicts, RoundVars, h, hist >>

-----------------------------------------------------------------------------
(* handle_answer *)

\* elapsed = max(0.0, now_ts - start_ts) if start_ts else 0.0
Elapsed(q) == IF q.q_age > 0 THEN q.q_age ELSE 0

\* The reward recomputed from the elapsed time alone
BasePoints_FromElapsed(q) == PointsForElapsed(Elapsed(q))

\* A reward that is taken away
BasePoints_Penalty(q) == 0 - PointsForElapsed(Elapsed(q))

\* points = quiz.get("current_points") or _points_for_elapsed(elapsed)
BasePoints(q) ==
    IF q.current_points # 0 THEN q.current_points
    ELSE PointsForElapsed(Elapsed(q))

\* A multiplier applied once per matching tag
Multiplied_PerTag(base, matched) == base * (2 ^ Cardinality(matched))

\* if matched: points = points * 2
Multiplied(base, matched) == IF matched # {} THEN base * 2 ELSE base

\* A mute that is never found active
MuteActive_Never(q) == FALSE

\* A mute that never lapses by itself
MuteActive_Always(q) == TRUE

\* _mon() < muted_until
MuteActive(q) == q.muted_left > 0

\* A streak that grows with every credit, whoever wins
NextStreak_Counting(label, last, streak) ==
    [streak |-> streak + 1, last |-> label]

\* if label == last_label: winning_streak + 1; else 1 and last_winning_team
NextStreak(label, last, streak) ==
    IF label = last THEN [streak |-> streak + 1, last |-> last]
    ELSE [streak |-> 1, last |-> label]

\* handle_answer from the match against the current question onwards
Resolve(u, text, idx, d) ==
    LET q == quiz[d]
        current == bank[idx + 1]
        base == BasePoints(q)
        user_label == UserLabel(u)
        team_double_set == IF user_label # "none"
                           THEN double_tags[user_label] ELSE {}
        matched == current.tags \cap team_double_set
        points == Multiplied(base, matched)
        label == IF user_label = "none" THEN "?" ELSE user_label
        again == \E e \in hist : e.d = d /\ e.idx = idx /\ e.what = "credit"
    IN  IF Normalize(text) \notin ExpectedValues(current)
        THEN /\ h' = Idle
             /\ UNCHANGED << tasks, scores, last_winning_team,
                             winning_streak, ev, hist >>
             /\ quiz' = quiz
        ELSE /\ quiz' = [quiz EXCEPT ![d].answered = TRUE, ![d].hint_gen = 0]
             /\ tasks' = CancelPendingTasks(tasks, d, NoTask)
             /\ IF d = cur
                THEN /\ scores' = [scores EXCEPT ![u] = @ + points]
                     /\ winning_streak' =
                          NextStreak(label, last_winning_team,
                                     winning_streak).streak
                     /\ last_winning_team' =
                          NextStreak(label, last_winning_team,
                                     winning_streak).last
                ELSE UNCHANGED << scores, last_winning_team, winning_streak >>
             /\ h' = [Idle EXCEPT !.pc = "answer_cd", !.wake = CountdownSleep,
                                  !.u = u, !.idx = idx, !.qd = d,
                                  !.gen = q.generation]
             /\ hist' = hist \cup
                   {Hist(d, q.generation, idx,
                         IF again THEN "credit_again" ELSE "credit")}
             /\ ev' = [Ev("credit") EXCEPT !.u = u, !.idx = idx, !.d = d,
                                           !.gen = q.generation,
                                           !.qidx = q.index,
                                           !.base = base, !.pts = points,
                                           !.recomputed =
                                               PointsForElapsed(Elapsed(q)),
                                           !.lazy = (h.pc = "unmute"),
                                           !.sent = "correct"]

\* handle_answer up to its first await
handle_answer(u, text) ==
    /\ h.pc = "idle"
    /\ players' = players \cup {u}
    /\ UNCHANGED << hint_usage, bank, cur, ndicts, teams, mute_enabled, mute_uses,
                    double_tags, budget >>
    /\ IF cur = 0 \/ ~quiz[cur].has_q
       THEN UNCHANGED << quiz, scores, last_winning_team, winning_streak,
                         tasks, h, ev, hist >>
       ELSE LET q == quiz[cur]
                idx == q.index % Len(bank)
                user_label == UserLabel(u)
            IN  IF ~IsAcceptingAnswers(q)
                THEN UNCHANGED << quiz, scores, last_winning_team,
                                  winning_streak, tasks, h, ev, hist >>
                ELSE IF user_label # "none" /\ q.muted_team = user_label
                     THEN IF MuteActive(q)
                          THEN /\ ev' = [Ev("muted") EXCEPT
                                           !.u = u, !.d = cur, !.idx = idx,
                                           !.match = Normalize(text) \in
                                               ExpectedValues(bank[idx + 1])]
                               /\ UNCHANGED << quiz, scores, last_winning_team,
                                               winning_streak, tasks, h, hist >>
                          ELSE /\ quiz' = [quiz EXCEPT
                                             ![cur].muted_team = "none",
                                             ![cur].muted_left = 0]
                               /\ h' = [Idle EXCEPT !.pc = "unmute", !.u = u,
                                                    !.text = text,
                                                    !.idx = idx, !.qd = cur]
                               /\ ev' = [Ev("lazy_unmute") EXCEPT
                                           !.u = u, !.d = cur,
                                           !.sent = "unmuted"]
                               /\ UNCHANGED << scores, last_winning_team,
                                               winning_streak, tasks, hist >>
                     ELSE Resolve(u, text, idx, cur)

\* handle_answer resumed after announcing the lazily expired mute
AnswerAfterUnmute ==
    /\ h.pc = "unmute"
    /\ Resolve(h.u, h.text, h.idx, h.qd)
    /\ UNCHANGED << hint_usage, bank, players, cur, ndicts, teams, mute_enabled,
                    mute_uses, double_tags, budget >>

\* handle_answer after the reply and the countdown: send_question(idx + 1)
AnswerAdvance ==
    /\ h.pc = "answer_cd"
    /\ h.wake = 0
    /\ SendQuestionCall(NoTask, h.idx + 1, "answer_advance",
                        {Hist(h.qd, h.gen, h.idx, "adv_answer")})

\* handle_answer when message.reply_text raises after the credit: the
\* exception leaves the handler before the countdown and send_question
AnswerReplyFails ==
    /\ h.pc = "answer_cd"
    /\ h.wake = CountdownSleep
    /\ h' = Idle
    /\ ev' = [Ev("reply_failed") EXCEPT !.u = h.u, !.d = h.qd, !.gen = h.gen,
                                        !.idx = h.idx, !.sent = "failed"]
    /\ UNCHANGED << hint_usage, bank, budget, players, cur, ndicts, quiz, RoundVars,
                    tasks, hist >>

-----------------------------------------------------------------------------
(* Team commands (src/src/commands/teams.py) *)

HasTeams == cur # 0 /\ teams # NoTeams

\* A split that gives team A the larger half
Mid_Up(n) == (n + 1) \div 2

\* mid = len(pairs) // 2
Mid(n) == n \div 2

\* /group: split the known players into two shuffled halves
split_groups ==
    /\ h.pc = "idle"
    /\ budget.groups > 0
    /\ cur # 0 \/ ndicts < MaxDicts
    /\ budget' = [budget EXCEPT !.groups = @ - 1]
    /\ IF Cardinality(players) < 2
       THEN /\ teams' = NoTeams
            /\ UNCHANGED << cur, ndicts, quiz >>
       ELSE LET d == IF cur = 0 THEN ndicts + 1 ELSE cur
                mid == Mid(Cardinality(players))
            IN  /\ cur' = d
                /\ ndicts' = IF cur = 0 THEN ndicts + 1 ELSE ndicts
                /\ \E team_a \in SUBSET players :
                     /\ Cardinality(team_a) = mid
                     /\ teams' = [A |-> team_a, B |-> players \ team_a]
                /\ quiz' = [quiz EXCEPT ![d].muted_team = "none",
                                        ![d].muted_left = 0]
    /\ ev' = [Ev("split_groups") EXCEPT !.sent = "teams"]
    /\ UNCHANGED << hint_usage, bank, players, scores, mute_enabled, mute_uses,
                    double_tags, last_winning_team, winning_streak,
                    tasks, h, hist >>

\* /givemute <team> <count> with a known team and a positive count
givemute(label, count) ==
    /\ h.pc = "idle"
    /\ budget.gives > 0
    /\ budget' = [budget EXCEPT !.gives = @ - 1]
    /\ IF ~HasTeams
       THEN UNCHANGED << mute_enabled, mute_uses >>
       ELSE /\ mute_enabled' = [mute_enabled EXCEPT ![label] = TRUE]
            /\ mute_uses' = [mute_uses EXCEPT ![label] = count]
    /\ ev' = [Ev("givemute") EXCEPT !.sent = "reply"]
    /\ UNCHANGED << hint_usage, bank, players, cur, ndicts, quiz, scores, teams,
                    double_tags, last_winning_team, winning_streak,
                    tasks, h, hist >>

\* /enabledouble <team> <tag> with a known team
enabledouble(label, tag) ==
    /\ h.pc = "idle"
    /\ budget.tagcmds > 0
    /\ budget' = [budget EXCEPT !.tagcmds = @ - 1]
    /\ IF ~HasTeams
       THEN UNCHANGED double_tags
       ELSE double_tags' = [double_tags EXCEPT ![label] = @ \cup {tag}]
    /\ ev' = [Ev("enabledouble") EXCEPT !.sent = "reply"]
    /\ UNCHANGED << hint_usage, bank, players, cur, ndicts, quiz, scores, teams,
                    mute_enabled, mute_uses, last_winning_team,
                    winning_streak, tasks, h, hist >>

\* A counter that is only exhausted below zero
NoUsesLeft_BelowZero(remaining) == remaining < 0

\* if remaining <= 0: the invocation is rejected
NoUsesLeft(remaining) == remaining <= 0

\* /mute up to its first await: permission and counting
mute(u) ==
    /\ h.pc = "idle"
    /\ LET user_label == UserLabel(u)
       IN  IF ~HasTeams \/ user_label = "none"
              \/ ~mute_enabled[user_label]
              \/ NoUsesLeft(mute_uses[user_label])
           THEN /\ ev' = [Ev("mute_refused") EXCEPT !.u = u]
                /\ UNCHANGED << mute_uses, h >>
           ELSE /\ mute_uses' = [mute_uses EXCEPT ![user_label] = @ - 1]
                /\ h' = [Idle EXCEPT !.pc = "mute_reply", !.u = u, !.qd = cur]
                /\ ev' = [Ev("mute") EXCEPT !.u = u, !.d = cur,
                                            !.sent = "reply"]
    /\ UNCHANGED << hint_usage, bank, players, cur, ndicts, quiz, scores, teams,
                    mute_enabled, double_tags, last_winning_team,
                    winning_streak, tasks, budget, hist >>

\* /mute after its reply: the other team is muted for 20 seconds.
\* teams are read from the handler's quiz dict; h.label is not needed because
\* the label is recomputed from the same, unchanged, membership.
MuteSet ==
    /\ h.pc = "mute_reply"
    /\ LET other_label == Other(UserLabel(h.u))
       IN  /\ quiz' = [quiz EXCEPT ![h.qd].muted_team = other_label,
                                   ![h.qd].muted_left = MUTE_SECONDS]
           /\ h' = [h EXCEPT !.pc = "mute_announce"]
           /\ ev' = [Ev("muted_set") EXCEPT !.u = h.u, !.d = h.qd,
                                            !.sent = "muted"]
    /\ UNCHANGED << hint_usage, bank, players, cur, ndicts, RoundVars, tasks, budget,
                    hist >>

\* /mute after its announcement: the expiry task is created
MuteArm ==
    /\ h.pc = "mute_announce"
    /\ tasks' = tasks \cup
          { [Task("mute", h.qd, 0, 0, MUTE_SECONDS, <<>>)
                EXCEPT !.label = quiz[h.qd].muted_team] }
    /\ h' = Idle
    /\ UNCHANGED << hint_usage, bank, players, cur, ndicts, quiz, RoundVars, budget,
                    ev, hist >>

\* /mute when message.reply_text raises: the exception leaves the handler, the
\* use is spent and nobody is muted
MuteReplyFails ==
    /\ h.pc = "mute_reply"
    /\ h' = Idle
    /\ ev' = [Ev("mute_reply_failed") EXCEPT !.u = h.u, !.d = h.qd]
    /\ UNCHANGED << hint_usage, bank, players, cur, ndicts, quiz, RoundVars, tasks,
                    budget, hist >>

\* /mute when the announcement raises: the exception leaves the handler before
\* _clear_mute_after is created
MuteAnnounceFails ==
    /\ h.pc = "mute_announce"
    /\ h' = Idle
    /\ ev' = [Ev("mute_announce_failed") EXCEPT !.u = h.u, !.d = h.qd]
    /\ UNCHANGED << hint_usage, bank, players, cur, ndicts, quiz, RoundVars, tasks,
                    budget, hist >>

\* An expiry that looks at the silenced team only
MuteDue_TeamOnly(q, muted_label) == q.muted_team = muted_label

\* quiz.get("muted_team") == muted_label and monotonic() >= muted_until
MuteDue(q, muted_label) == q.muted_team = muted_label /\ q.muted_left = 0

\* _clear_mute_after after its sleep
MuteExpire(t) ==
    /\ t.kind = "mute"
    /\ t.pc = "sleep"
    /\ t.wake = 0
    /\ tasks' = tasks \ {t}
    /\ IF MuteDue(quiz[t.d], t.label)
       THEN /\ quiz' = [quiz EXCEPT ![t.d].muted_team = "none",
                                    ![t.d].muted_left = 0]
            /\ ev' = [Ev("mute_expired") EXCEPT !.d = t.d, !.sent = "unmuted"]
       ELSE UNCHANGED << quiz, ev >>
    /\ UNCHANGED << hint_usage, bank, players, cur, ndicts, RoundVars, h, budget, hist >>

-----------------------------------------------------------------------------
(* Time *)

AgeCap == HINT_POINT_STEPS[Len(HINT_POINT_STEPS)].time

Dec(n) == IF n > 0 THEN n - 1 ELSE 0

Tick ==
    /\ \A t \in tasks : ~(t.pc = "sleep" /\ t.wake = 0)
    /\ h.pc \notin {"mute_reply", "mute_announce"}
    /\ tasks' = { [t EXCEPT !.wake = Dec(@)] : t \in tasks }
    /\ h' = [h EXCEPT !.wake = Dec(@)]
    /\ quiz' = [d \in DictIds |->
                   [quiz[d] EXCEPT
                      !.q_age = IF @ >= 0 /\ @ < AgeCap THEN @ + 1 ELSE @,
                      !.muted_left = Dec(@)]]
    /\ UNCHANGED << hint_usage, bank, budget, players, cur, ndicts, RoundVars, ev, hist >>

\* Scenarios in which the transport answers within the second, except for
\* the announcement of a lazily expired mute: the handler never waits longer
\* than its countdown
HandlerPrompt ==
    /\ h.pc \notin {"sendq", "scores"}
    /\ h.pc \in {"start_cd", "answer_cd"} => h.wake > 0

-----------------------------------------------------------------------------
(* The round without teams *)

TaskStep ==
    \E t \in tasks :
        \/ HintFire(t)
        \/ TimeoutFire(t)
        \/ TimeoutAdvance(t)
        \/ TimeoutQuestionSent(t)
        \/ TimeoutFinalize(t)

HandlerStep ==
    \/ StartSendQuestion
    \/ HandlerQuestionSent
    \/ HandlerFinalize
    \/ AnswerAdvance

Next ==
    \/ start
    \/ \E u \in Users, text \in Texts : handle_answer(u, text)
    \/ HandlerStep
    \/ TaskStep
    \/ Tick

Spec == Init /\ [][Next]_vars

-----------------------------------------------------------------------------
(* One round with two teams and the mute *)

\* In these scenarios the admin forms the teams and configures them before
\* the round is started
BeforeStart == IF cur = 0 THEN TRUE ELSE ~quiz[cur].has_q

InitMute ==
    /\ bank = MainBank
    /\ hint_usage = NoUsage
    /\ budget = Budget(1, MaxGroups, MaxGives, 0)
    /\ InitCommon

MuteTaskStep == \E t \in tasks : MuteExpire(t)

NextMute ==
    \/ start
    \/ \E u \in Users, text \in Texts : handle_answer(u, text)
    \/ HandlerStep
    \/ TaskStep
    \/ HandlerPrompt /\ Tick
    \/ BeforeStart /\ split_groups
    \/ BeforeStart /\ \E count \in 1..MaxGrant : givemute("A", count)
    \/ \E u \in Users : mute(u)
    \/ MuteSet
    \/ MuteArm
    \/ AnswerAfterUnmute
    \/ MuteTaskStep

SpecMute == InitMute /\ [][NextMute]_vars

-----------------------------------------------------------------------------
(* One round with two teams and double-score tags *)

InitDouble ==
    /\ bank = MainBank
    /\ hint_usage = NoUsage
    /\ budget = Budget(1, MaxGroups, 0, MaxTagCmds)
    /\ InitCommon

NextDouble ==
    \/ Next
    \/ BeforeStart /\ split_groups
    \/ BeforeStart /\ \E label \in Labels, tag \in Tags :
                         enabledouble(label, tag)

SpecDouble == InitDouble /\ [][NextDouble]_vars

-----------------------------------------------------------------------------
(* A restarted round over a list of three questions, one participant *)

LongBank ==
    MainBank \o << [answer |-> <<"z">>, alternative |-> {}, tags |-> {}] >>

InitLong ==
    /\ bank = LongBank
    /\ hint_usage = NoUsage
    /\ budget = Budget(1 + MaxRestarts, 0, 0, 0)
    /\ InitCommon

\* The admin restarts the round as soon as its first question is out
RestartEarly ==
    IF cur = 0 THEN TRUE
    ELSE quiz[cur].accepting /\ quiz[cur].index = 0 /\ quiz[cur].q_age = 0

NextLong ==
    \/ RestartEarly /\ start
    \/ \E text \in Texts : handle_answer(1, text)
    \/ HandlerStep
    \/ TaskStep
    \/ HandlerPrompt /\ Tick

SpecLong == InitLong /\ [][NextLong]_vars

-----------------------------------------------------------------------------
(* A mute after which nothing more is received, transport calls may fail *)

\* No mute is in force and none is being placed
Quiet ==
    /\ h.pc \notin {"mute_reply", "mute_announce"}
    /\ \A d \in DictIds : quiz[d].muted_team = "none"

NextSilence ==
    \/ BeforeStart /\ split_groups
    \/ BeforeStart /\ \E count \in 1..MaxGrant : givemute("A", count)
    \/ start
    \/ Quiet /\ \E u \in Users : handle_answer(u, <<"b">>)
    \/ Quiet /\ \E u \in Users : mute(u)
    \/ MuteSet
    \/ MuteArm
    \/ MuteReplyFails
    \/ MuteAnnounceFails
    \/ HandlerStep
    \/ TaskStep
    \/ MuteTaskStep
    \/ HandlerPrompt /\ Tick

\* The event loop runs every callback that is ready, every transport call
\* returns or raises, and time passes
SpecSilence ==
    /\ InitMute
    /\ [][NextSilence]_vars
    /\ WF_vars(HandlerPrompt /\ Tick)
    /\ WF_vars(TaskStep)
    /\ WF_vars(MuteTaskStep)
    /\ WF_vars(HandlerStep)
    /\ WF_vars(MuteSet \/ MuteReplyFails)
    /\ WF_vars(MuteArm \/ MuteAnnounceFails)

-----------------------------------------------------------------------------
(* One round, one participant, transport calls may fail *)

InitFail ==
    /\ bank = MainBank
    /\ hint_usage = NoUsage
    /\ budget = Budget(1, 0, 0, 0)
    /\ InitCommon

FailTaskStep ==
    \E t \in tasks :
        \/ HintSendFails(t)
        \/ TimeoutAnnounceFails(t)
        \/ TimeoutQuestionFails(t)

NextFail ==
    \/ start
    \/ \E text \in Texts : handle_answer(1, text)
    \/ HandlerStep
    \/ HandlerQuestionFails
    \/ AnswerReplyFails
    \/ TaskStep
    \/ FailTaskStep
    \/ HandlerPrompt /\ Tick

\* The event loop runs every callback that is ready, every transport call
\* returns or raises, and time passes
SpecFail ==
    /\ InitFail
    /\ [][NextFail]_vars
    /\ WF_vars(HandlerPrompt /\ Tick)
    /\ WF_vars(HandlerStep \/ HandlerQuestionFails)
    /\ WF_vars(TaskStep \/ FailTaskStep)

-----------------------------------------------------------------------------
(* One round whose second question has no canonical answer *)

\* question_data.get("answer", "") is empty for the second question, which
\* lists an accepted alternative
BlankBank ==
    << MainBank[1],
       [answer |-> <<>>, alternative |-> {<<"b">>}, tags |-> {}] >>

InitBlank ==
    /\ bank = BlankBank
    /\ hint_usage = NoUsage
    /\ budget = Budget(1, 0, 0, 0)
    /\ InitCommon

NextBlank ==
    \/ start
    \/ \E text \in Texts : handle_answer(1, text)
    \/ HandlerStep
    \/ TaskStep
    \/ HandlerPrompt /\ Tick

\* The event loop runs every callback that is ready and time passes
SpecBlank ==
    /\ InitBlank
    /\ [][NextBlank]_vars
    /\ WF_vars(HandlerPrompt /\ Tick)
    /\ WF_vars(HandlerStep)
    /\ WF_vars(TaskStep)

-----------------------------------------------------------------------------
(* The monolithic variant (src/src/main.py): chat_data itself is the round *)
(* state, modelled as quiz[1]                                              *)

MAIN_HINT_POINT_STEPS ==
    << [time |-> 8,  ratio |-> 0, points |-> 4],
       [time |-> 14, ratio |-> 2, points |-> 3],
       [time |-> 20, ratio |-> 4, points |-> 2],
       [time |-> 25, ratio |-> 6, points |-> 1] >>

MAIN_FINAL_REVEAL_TIME == 30

\* Questions sent in one run of the model
MaxGeneration == 4

\* main.start up to its first await: the same chat_data gets the question
\* list, index 0, empty scores and answered = False
MainStart ==
    /\ h.pc = "idle"
    /\ budget.starts > 0
    /\ budget' = [budget EXCEPT !.starts = @ - 1]
    /\ cur' = 1
    /\ ndicts' = 1
    /\ quiz' = [quiz EXCEPT ![1].has_q = TRUE,
                            ![1].index = 0,
                            ![1].answered = FALSE]
    /\ scores' = NoScores
    /\ h' = [Idle EXCEPT !.pc = "start_cd", !.wake = COUNTDOWN_SLEEP]
    /\ ev' = [Ev("start") EXCEPT !.d = 1, !.sent = "quiz_time"]
    /\ UNCHANGED << hint_usage, bank, players, teams, mute_enabled, mute_uses,
                    double_tags, last_winning_team, winning_streak,
                    tasks, hist >>

\* main._send_question up to its first await: idx = next_index % len(questions)
MainSendQuestionCall(self, next_index, evtype) ==
    /\ cur # 0
    /\ quiz[cur].has_q
    /\ quiz[cur].generation < MaxGeneration
    /\ LET n == IF next_index = -1 THEN quiz[cur].index ELSE next_index
           idx == n % Len(bank)
           frame(c) == [c EXCEPT !.pc = "sendq", !.wake = 0, !.qd = cur,
                                 !.idx = idx,
                                 !.sgen = quiz[cur].generation + 1]
       IN  /\ quiz' = [quiz EXCEPT ![cur] = ResetQuestionState(@, idx)]
           /\ IF self = NoTask
              THEN /\ h' = frame(h)
                   /\ tasks' = CancelPendingTasks(tasks, cur, self)
              ELSE /\ h' = h
                   /\ tasks' = (CancelPendingTasks(tasks, cur, self) \ {self})
                                 \cup {frame(self)}
           /\ ev' = [Ev(evtype) EXCEPT !.d = cur, !.gen = self.gen,
                                       !.idx = idx, !.qidx = n]
    /\ UNCHANGED << hint_usage, bank, budget, players, cur, ndicts, RoundVars, hist >>

MainScheduleHints(d, generation, order) ==
    { Task("hint", d, generation, k, MAIN_HINT_POINT_STEPS[k].time, order) :
        k \in 1..Len(MAIN_HINT_POINT_STEPS) }
    \cup { Task("timeout", d, generation, 0, MAIN_FINAL_REVEAL_TIME, order) }

\* main._send_question after the question was delivered
MainSendQuestionFinish(self, c) ==
    /\ c.pc = "sendq"
    /\ LET answer == bank[c.idx + 1].answer
       IN  \E order \in Perms(Revealable(answer)) :
             /\ quiz' = [quiz EXCEPT ![c.qd].q_age = 0,
                                     ![c.qd].accepting = TRUE,
                                     ![c.qd].hint_gen =
                                         IF answer = <<>> THEN @ ELSE c.sgen]
             /\ LET armed == IF answer = <<>> THEN {}
                             ELSE MainScheduleHints(c.qd, c.sgen, order)
                IN  IF self = NoTask
                    THEN /\ tasks' = tasks \cup armed
                         /\ h' = Idle
                    ELSE /\ tasks' = (tasks \ {self}) \cup armed
                         /\ h' = h
    /\ ev' = [Ev("question_sent") EXCEPT !.d = c.qd, !.gen = c.sgen,
                                         !.idx = c.idx, !.sent = "question"]
    /\ UNCHANGED << hint_usage, bank, budget, players, cur, ndicts, RoundVars, hist >>

MainStartSendQuestion ==
    /\ h.pc = "start_cd"
    /\ h.wake = 0
    /\ MainSendQuestionCall(NoTask, -1, "start_send")

\* main._send_hint after its sleep
MainHintFire(t) ==
    /\ t.kind = "hint"
    /\ t.pc = "sleep"
    /\ t.wake = 0
    /\ tasks' = tasks \ {t}
    /\ IF IsStale(quiz[t.d], t.gen)
       THEN /\ quiz' = quiz
            /\ ev' = [Ev("hint") EXCEPT !.d = t.d, !.gen = t.gen, !.k = t.k,
                                        !.stale = TRUE]
       ELSE LET step == MAIN_HINT_POINT_STEPS[t.k]
                target_count == Ceil10(Len(t.order) * step.ratio)
                revealed == { t.order[i] : i \in 1..target_count }
            IN  /\ quiz' = [quiz EXCEPT ![t.d].revealed = revealed,
                                        ![t.d].current_points = step.points]
                /\ ev' = [Ev("hint") EXCEPT !.d = t.d, !.gen = t.gen,
                                            !.k = t.k, !.sent = "hint"]
    /\ UNCHANGED << hint_usage, bank, budget, players, cur, ndicts, RoundVars, h, hist >>

\* main._timeout_reveal after its sleep
MainTimeoutFire(t) ==
    /\ t.kind = "timeout"
    /\ t.pc = "sleep"
    /\ t.wake = 0
    /\ IF IsStale(quiz[t.d], t.gen)
       THEN /\ quiz' = quiz
            /\ tasks' = tasks \ {t}
            /\ ev' = [Ev("timeout") EXCEPT !.d = t.d, !.gen = t.gen,
                                           !.stale = TRUE]
       ELSE /\ quiz' = [quiz EXCEPT ![t.d].answered = TRUE]
            /\ tasks' = (tasks \ {t}) \cup
                          {[t EXCEPT !.pc = "countdown", !.wake = CountdownSleep]}
            /\ ev' = [Ev("timeout") EXCEPT !.d = t.d, !.gen = t.gen,
                                           !.idx = quiz[t.d].index,
                                           !.sent = "no_one_guessed"]
    /\ UNCHANGED << hint_usage, bank, budget, players, cur, ndicts, RoundVars, h, hist >>

\* main._timeout_reveal after the countdown: _send_question(index + 1)
MainTimeoutAdvance(t) ==
    /\ t.kind = "timeout"
    /\ t.pc = "countdown"
    /\ t.wake = 0
    /\ MainSendQuestionCall(t, quiz[t.d].index + 1, "timeout_advance")

MainTimeoutQuestionSent(t) ==
    /\ t.kind = "timeout"
    /\ MainSendQuestionFinish(t, t)

\* main._points_for_elapsed
MainPointsForElapsed(seconds) ==
    IF seconds < MAIN_HINT_POINT_STEPS[1].time THEN INITIAL_POINTS
    ELSE LET reached == { k \in 1..Len(MAIN_HINT_POINT_STEPS) :
                            seconds >= MAIN_HINT_POINT_STEPS[k].time }
         IN  MAIN_HINT_POINT_STEPS[CHOOSE k \in reached :
                                     \A j \in reached : j <= k].points

\* main.handle_answer up to its first await
MainHandleAnswer(u, text) ==
    /\ h.pc = "idle"
    /\ players' = players \cup {u}
    /\ UNCHANGED << hint_usage, bank, cur, ndicts, teams, mute_enabled, mute_uses,
                    double_tags, last_winning_team, winning_streak, budget,
                    hist >>
    /\ IF cur = 0 \/ ~quiz[cur].has_q
       THEN /\ ev' = [Ev("not_started") EXCEPT !.u = u, !.sent = "reply"]
            /\ UNCHANGED << quiz, scores, tasks, h >>
       ELSE LET q == quiz[cur]
                idx == q.index % Len(bank)
                points == IF q.current_points # 0 THEN q.current_points
                          ELSE MainPointsForElapsed(Elapsed(q))
            IN  IF \/ ~IsAcceptingAnswers(q)
                   \/ Normalize(text) \notin ExpectedValues(bank[idx + 1])
                THEN UNCHANGED << quiz, scores, tasks, h, ev >>
                ELSE /\ quiz' = [quiz EXCEPT ![cur].answered = TRUE,
                                             ![cur].hint_gen = 0]
                     /\ tasks' = CancelPendingTasks(tasks, cur, NoTask)
                     /\ scores' = [scores EXCEPT ![u] = @ + points]
                     /\ h' = [Idle EXCEPT !.pc = "answer_cd",
                                          !.wake = COUNTDOWN_SLEEP,
                                          !.u = u, !.idx = idx, !.qd = cur,
                                          !.gen = q.generation]
                     /\ ev' = [Ev("credit") EXCEPT !.u = u, !.idx = idx,
                                                   !.d = cur,
                                                   !.gen = q.generation,
                                                   !.qidx = q.index,
                                                   !.base = points,
                                                   !.pts = points,
                                                   !.sent = "correct"]

\* main.handle_answer after the reply and the countdown: _send_question(idx + 1)
MainAnswerAdvance ==
    /\ h.pc = "answer_cd"
    /\ h.wake = 0
    /\ MainSendQuestionCall(NoTask, h.idx + 1, "answer_advance")

MainHandlerQuestionSent == MainSendQuestionFinish(NoTask, h)

MainTaskStep ==
    \E t \in tasks :
        \/ MainHintFire(t)
        \/ MainTimeoutFire(t)
        \/ MainTimeoutAdvance(t)
        \/ MainTimeoutQuestionSent(t)

InitMain ==
    /\ bank = MainBank
    /\ hint_usage = NoUsage
    /\ budget = Budget(1 + MaxRestarts, 0, 0, 0)
    /\ InitCommon

NextMain ==
    \/ MainStart
    \/ \E u \in Users, text \in Texts : MainHandleAnswer(u, text)
    \/ MainStartSendQuestion
    \/ MainHandlerQuestionSent
    \/ MainAnswerAdvance
    \/ MainTaskStep
    \/ HandlerPrompt /\ Tick

SpecMain == InitMain /\ [][NextMain]_vars

-----------------------------------------------------------------------------
(* A restarted round whose first answer has three letters and a blank *)

RevealBank ==
    << [answer |-> <<"a", " ", "b", "c">>, alternative |-> {}, tags |-> {}],
       MainBank[2] >>

InitReveal ==
    /\ bank = RevealBank
    /\ hint_usage = NoUsage
    /\ budget = Budget(1 + MaxRestarts, 0, 0, 0)
    /\ InitCommon

NextReveal ==
    \/ start
    \/ \E text \in Texts : handle_answer(1, text)
    \/ HandlerStep
    \/ TaskStep
    \/ HandlerPrompt /\ Tick

SpecReveal == InitReveal /\ [][NextReveal]_vars

-----------------------------------------------------------------------------
(* _build_progressive_hint over every short answer and every revealed set *)

MaxAnswerLen == 3

AnswerChars == {"a", "B", " "}

AnswerStrings ==
    UNION { [1..n -> AnswerChars] : n \in 0..MaxAnswerLen }

InitMask ==
    /\ bank \in { << [answer |-> a, alternative |-> {}, tags |-> {}] >> :
                    a \in AnswerStrings }
    /\ hint_usage = NoUsage
    /\ budget = Budget(0, 0, 0, 0)
    /\ InitCommon

\* The hint text _send_hint builds for a revealed set
RenderHint(revealed) ==
    /\ ev' = [ type |-> "mask", answer |-> bank[1].answer,
               revealed |-> revealed,
               text |-> BuildProgressiveHint(bank[1].answer, revealed) ]
    /\ UNCHANGED << hint_usage, bank, players, cur, ndicts, quiz, RoundVars, tasks, h,
                    budget, hist >>

NextMask == \E revealed \in SUBSET (1..Len(bank[1].answer)) : RenderHint(revealed)

SpecMask == InitMask /\ [][NextMask]_vars

-----------------------------------------------------------------------------
(* Properties *)

Answered(e) == e.what \in {"credit", "credit_again", "adv_answer"}

\* C1: for a question index of a round, the correct-answer path and the timeout
\* path never both take effect: no index has a credit or an advance made by
\* handle_answer and also an advance made by _timeout_reveal.
C1_OneResolutionPath ==
    \A e1 \in hist, e2 \in hist :
        ~ ( /\ e1.d = e2.d
            /\ e1.idx = e2.idx
            /\ Answered(e1)
            /\ e2.what = "adv_timeout" )

\* C3: a question never has both the timeout announcement ("no one guessed")
\* and a score credit.
C3_LoserSuppressed ==
    \A e1 \in hist, e2 \in hist :
        ~ ( /\ e1.d = e2.d
            /\ e1.gen = e2.gen
            /\ e1.idx = e2.idx
            /\ e1.what = "announce"
            /\ e2.what \in {"credit", "credit_again"} )

\* C6: a credit is always for the index that is the round's index at the
\* moment handle_answer resolves the question.
C6_MatchedAgainstActive ==
    ev.type = "credit" => ev.idx = ev.qidx

\* C4: after a restart, a reveal tick or a timeout armed by the previous round
\* broadcasts nothing when it fires.
C4_OldTimersInert ==
    ( /\ cur # 0
      /\ ev.type \in {"hint", "timeout"}
      /\ ev.d # 0
      /\ ev.d # cur ) => ev.sent = "none"

\* C5: a reveal tick or a timeout that fires when its captured generation is
\* not the generation of its round, or when the question is already resolved,
\* changes nothing of the round (revealed positions, reward tier, resolved
\* flag, index), changes no score and broadcasts nothing.
C5_StaleFireIsNoOp ==
    [][ \A t \in tasks :
          ( /\ HintFire(t) \/ TimeoutFire(t)
            /\ quiz[t.d].generation # t.gen \/ quiz[t.d].answered )
          => ( /\ quiz' = quiz
               /\ scores' = scores
               /\ hist' = hist
               /\ ev'.sent = "none" ) ]_vars

C5_StaleFired ==
    /\ ev.type \in {"hint", "timeout"}
    /\ ev.stale
    /\ ev.d = cur

\* C7: the index of a round changes only by +1 and only after the current
\* question was resolved, and a round installed by start begins at index 0.
C7_IndexByOne ==
    [][ /\ ( cur # 0 /\ cur' = cur /\ quiz'[cur].index # quiz[cur].index )
           => ( /\ quiz'[cur].index = quiz[cur].index + 1
                /\ quiz[cur].answered )
        /\ ( cur' # 0 /\ cur' # cur /\ quiz'[cur'].has_q )
           => quiz'[cur'].index = 0 ]_vars

\* C2: a question of a round is credited at most once: no correct submission
\* is credited for an index of the round that was already credited.
C2_CreditedOnce ==
    \A e \in hist : e.what # "credit_again"

\* The reveal ticks that took effect for a question
TicksFired(d, gen) ==
    { e.k : e \in { x \in hist : x.what = "tick" /\ x.d = d /\ x.gen = gen } }

\* The reward tier as the ticks announced it
Tier(d, gen) ==
    LET fired == TicksFired(d, gen)
    IN  IF fired = {} THEN INITIAL_POINTS
        ELSE HINT_POINT_STEPS[CHOOSE k \in fired : \A j \in fired : j <= k].points

\* C8: the points credited before doubling are the current reward tier: 5 when
\* no reveal tick has fired for the question, else the points of the last tick
\* that fired, whatever the elapsed time says.
C8_PaysCurrentTier ==
    ev.type = "credit" => ev.base = Tier(ev.d, ev.gen)

C8_TierDiffersFromElapsed ==
    /\ ev.type = "credit"
    /\ ev.d = cur
    /\ ev.recomputed # ev.base
    /\ scores[ev.u] > 0

\* The tags of question idx that the team of participant u doubles
MatchingTags(u, idx) ==
    { tag \in bank[idx + 1].tags :
        \E label \in Labels : u \in teams[label] /\ tag \in double_tags[label] }

\* C9: the credit is twice the base reward when the participant's team has a
\* double tag that is a tag of the question, and the base reward otherwise;
\* two matching tags still double once.
C9_DoubleOnce ==
    ( ev.type = "credit" /\ ev.d = cur ) =>
        ev.pts = IF MatchingTags(ev.u, ev.idx) # {}
                 THEN 2 * ev.base ELSE ev.base

C9_TwoTagsMatched ==
    /\ ev.type = "credit"
    /\ ev.d = cur
    /\ Cardinality(MatchingTags(ev.u, ev.idx)) = 2
    /\ ev.pts = 2 * ev.base
    /\ scores[ev.u] = ev.pts

\* C10: while a mute is active, a message from a member of the muted team
\* changes no score, does not resolve the question and does not advance the
\* round, even when its text is a correct answer.
C10_MutedIgnored ==
    [][ \A u \in Users, text \in Texts :
          ( /\ cur # 0
            /\ UserLabel(u) # "none"
            /\ quiz[cur].muted_team = UserLabel(u)
            /\ quiz[cur].muted_left > 0
            /\ handle_answer(u, text) )
          => ( /\ scores' = scores
               /\ quiz' = quiz
               /\ tasks' = tasks
               /\ h' = h
               /\ hist' = hist ) ]_vars

C10_CorrectAnswerMuted ==
    /\ ev.type = "muted"
    /\ ev.match
    /\ ev.d = cur
    /\ quiz[cur].accepting
    /\ ~quiz[cur].answered
    /\ quiz[cur].muted_left > 0

\* C11: a message from a member of the muted team that handle_answer processes
\* when the mute's 20 seconds are over and _clear_mute_after has not run yet
\* clears muted_team and muted_until, and the same message is then matched
\* against the question: a correct text is credited, a wrong one changes
\* nothing.
C11_LazyExpiry ==
    [][ /\ \A u \in Users, text \in Texts :
             ( /\ cur # 0
               /\ UserLabel(u) # "none"
               /\ quiz[cur].muted_team = UserLabel(u)
               /\ quiz[cur].muted_left = 0
               /\ IsAcceptingAnswers(quiz[cur])
               /\ handle_answer(u, text) )
             => ( /\ quiz'[cur].muted_team = "none"
                  /\ quiz'[cur].muted_left = 0
                  /\ h'.pc = "unmute"
                  /\ h'.u = u
                  /\ h'.text = text
                  /\ scores' = scores )
        /\ ( h.pc = "unmute" /\ AnswerAfterUnmute )
             => IF Normalize(h.text) \in ExpectedValues(bank[h.idx + 1])
                THEN /\ ev'.type = "credit"
                     /\ ev'.u = h.u
                     /\ ev'.pts > 0
                     /\ h.qd = cur => scores'[h.u] = scores[h.u] + ev'.pts
                ELSE /\ scores' = scores
                     /\ quiz' = quiz
                     /\ h' = Idle ]_vars

C11_CreditedAfterLazyExpiry ==
    /\ ev.type = "credit"
    /\ ev.lazy
    /\ ev.d = cur
    /\ quiz[cur].muted_team = "none"
    /\ scores[ev.u] = ev.pts
    /\ \E t \in tasks : t.kind = "mute" /\ t.d = cur /\ t.pc = "sleep"

MuteInForce == \E d \in DictIds : d = cur /\ quiz[d].muted_team # "none"

\* C13: every mute ends on its own: when a mute is in force and nothing more is
\* received, muted_team and muted_until are eventually cleared.
C13_SilenceEnds == MuteInForce ~> ~MuteInForce

MuteTasks(ts) == { t \in ts : t.kind = "mute" }

\* C14: sending a question, resolving it by a correct answer or by its timeout,
\* a reveal tick and the end of the round leave muted_team and muted_until of
\* every quiz dict and the pending _clear_mute_after tasks as they are;
\* cancelling the question's timers cancels no mute expiry, and apart from
\* /group a mute is only ever cleared when its 20 seconds are over.
C14_MuteUntouched ==
    [][ /\ ( \/ HandlerStep
             \/ TaskStep
             \/ AnswerAfterUnmute
             \/ ( /\ h.pc = "idle"
                  /\ h'.pc = "answer_cd"
                  /\ \E u \in Users, text \in Texts : handle_answer(u, text) ) )
           => ( /\ \A d \in DictIds :
                     /\ quiz'[d].muted_team = quiz[d].muted_team
                     /\ quiz'[d].muted_left = quiz[d].muted_left
                /\ MuteTasks(tasks') = MuteTasks(tasks) )
        /\ \A d \in DictIds :
             ( quiz[d].muted_team # "none" /\ quiz'[d].muted_team = "none" )
               => ( quiz[d].muted_left = 0 \/ split_groups ) ]_vars

\* A mute placed while question 0 was open is still running, with its expiry
\* pending, while question 1 is open after a correct answer to question 0
C14_MuteAcrossQuestions ==
    /\ cur # 0
    /\ quiz[cur].index = 1
    /\ quiz[cur].accepting
    /\ ~quiz[cur].answered
    /\ quiz[cur].q_age >= 0
    /\ quiz[cur].muted_team # "none"
    /\ quiz[cur].muted_left > 0
    /\ quiz[cur].q_age + quiz[cur].muted_left + CountdownSleep <= MUTE_SECONDS
    /\ \E e \in hist : e.d = cur /\ e.idx = 0 /\ e.what = "credit"
    /\ \E t \in MuteTasks(tasks) :
         t.d = cur /\ t.label = quiz[cur].muted_team /\ t.pc = "sleep"

\* The round has moved on: the next question is out or the round is over
MovedOn == ev.type \in {"question_sent", "finalized"}

\* C15: when delivering a question raises, the round is not wedged: it goes on
\* as if the question had been sent, so that eventually a question is out or
\* the round is finalized.
C15_SendFailureNotWedged == ( ev.type = "question_failed" ) ~> MovedOn

\* C16: when the announcement of a resolution raises (the timeout's reveal, or
\* the reply that confirms a correct answer), the resolution still completes:
\* eventually the next question is out or the round is finalized.
C16_AnnounceFailureCompletes ==
    ( /\ ev.type \in {"timeout", "reply_failed"}
      /\ ev.sent = "failed" ) ~> MovedOn

\* C17: when the send of a fired reveal tick raises, only that tick ends: the
\* tick has set the revealed positions and the tier, the other reveal ticks and
\* the timeout of the question stay armed, the handler in flight is untouched
\* and no score changes.
C17_HintFailureConfined ==
    [][ \A t \in tasks :
          HintSendFails(t)
          => ( /\ tasks' = tasks \ {t}
               /\ \A x \in tasks :
                    ( x.kind = "timeout" /\ x.d = t.d /\ x.gen = t.gen )
                      => x \in tasks'
               /\ quiz'[t.d].current_points = HINT_POINT_STEPS[t.k].points
               /\ quiz'[t.d].answered = quiz[t.d].answered
               /\ quiz'[t.d].generation = quiz[t.d].generation
               /\ h' = h
               /\ scores' = scores ) ]_vars

\* After a failed first tick the timeout of the same question announces the
\* answer
C17_TimeoutAfterFailedTick ==
    /\ ev.type = "timeout"
    /\ ev.sent = "no_one_guessed"
    /\ ev.d = cur
    /\ \E e \in hist : /\ e.what = "tick_failed"
                       /\ e.d = ev.d
                       /\ e.gen = ev.gen
                       /\ e.k = 1
    /\ \E e \in hist : /\ e.what = "tick"
                       /\ e.d = ev.d
                       /\ e.gen = ev.gen
                       /\ e.k = Len(HINT_POINT_STEPS)

\* A question is out and unresolved
Open == \E d \in DictIds : d = cur /\ quiz[d].accepting /\ ~quiz[d].answered

\* C18: every question that is sent is eventually resolved, by a correct answer
\* or, when none comes, by the timeout armed for it.
C18_EveryQuestionResolved == Open ~> ~Open

QuestionTimers(ts) == { t \in ts : t.kind \in {"hint", "timeout"} }

\* C19: when the round is finalized (final scores emitted, quiz dict popped),
\* the round state is gone and no reveal tick and no timeout remains armed.
C19_FinalizedIsQuiet ==
    ev.type = "finalized" => ( cur = 0 /\ QuestionTimers(tasks) = {} )

\* C20: in src/main.py, a resolution that advances past the last question
\* (the index asked of _send_question is the length of the list or more)
\* finalizes the round: no question is reset or sent and the question list
\* is gone from the round state.
C20_MainFinalizes ==
    ( /\ ev.type \in {"answer_advance", "timeout_advance"}
      /\ ev.qidx >= Len(bank) )
    => ( /\ h.pc # "sendq"
         /\ \A t \in tasks : t.pc # "sendq"
         /\ cur = 0 \/ ~quiz[1].has_q )

\* The sets of the first n positions of a reveal order
Prefixes(order) == { { order[i] : i \in 1..n } : n \in 0..Len(order) }

\* C21: within one question (one generation of a quiz dict) the revealed set
\* never loses a position; the reveal ticks armed for a question all hold the
\* one order shuffled when it was armed, and the set a tick writes is a prefix
\* of that order.
C21_RevealedGrows ==
    [][ /\ \A d \in DictIds :
             quiz'[d].generation = quiz[d].generation
               => quiz[d].revealed \subseteq quiz'[d].revealed
        /\ \A t1 \in tasks, t2 \in tasks :
             ( /\ t1.kind = "hint" /\ t2.kind = "hint"
               /\ t1.d = t2.d /\ t1.gen = t2.gen )
               => t1.order = t2.order
        /\ \A t \in tasks :
             ( HintFire(t) /\ ~IsStale(quiz[t.d], t.gen) )
               => quiz'[t.d].revealed \in Prefixes(t.order) ]_vars

\* The third tick has added a second position to the one the second tick showed
C21_SecondPositionRevealed ==
    /\ ev.type = "hint"
    /\ ev.sent = "hint"
    /\ ev.k = 3
    /\ ev.d = cur
    /\ Cardinality(quiz[cur].revealed) = 2
    /\ \E e \in hist : e.what = "tick" /\ e.d = cur /\ e.gen = ev.gen /\ e.k = 2

NotSpace(ch) == ~IsSpace(ch)

\* The characters of a text that are not blanks, in order
Inked(text) == SelectSeq(text, NotSpace)

\* The non-blank positions of an answer, in order
RECURSIVE InkedPositions(_, _)
InkedPositions(answer, i) ==
    IF i > Len(answer) THEN <<>>
    ELSE ( IF IsSpace(answer[i]) THEN <<>> ELSE <<i>> )
         \o InkedPositions(answer, i + 1)

\* The words of a text: its maximal runs of non-blank characters
RECURSIVE Words(_)
Words(text) ==
    LET s == LStrip(text)
        n == IF \E i \in 1..Len(s) : IsSpace(s[i])
             THEN ( CHOOSE i \in 1..Len(s) :
                      IsSpace(s[i]) /\ \A j \in 1..(i - 1) : ~IsSpace(s[j]) ) - 1
             ELSE Len(s)
    IN  IF s = <<>> THEN <<>>
        ELSE << SubSeq(s, 1, n) >> \o Words(SubSeq(s, n + 1, Len(s)))

\* C22: for every answer and every revealed set the hint text has one mark for
\* each non-blank position of the answer, in order: the character itself when
\* the position is revealed, the placeholder "_" otherwise; blanks of the
\* answer give no mark; with every non-blank position revealed the text has
\* the words of the answer.
C22_MaskShowsRevealed ==
    ev.type = "mask" =>
        LET marks == Inked(ev.text)
            pos == InkedPositions(ev.answer, 1)
        IN  /\ Len(marks) = Len(pos)
            /\ \A j \in 1..Len(pos) :
                 marks[j] = IF pos[j] \in ev.revealed
                            THEN ev.answer[pos[j]] ELSE "_"
            /\ Revealable(ev.answer) \subseteq ev.revealed
                 => Words(ev.text) = Words(ev.answer)

\* A two-word answer fully revealed: the text differs from the answer only in
\* the width of the blank
C22_FullyRevealedTwoWords ==
    /\ ev.type = "mask"
    /\ ev.answer = <<"a", " ", "B">>
    /\ ev.revealed = {1, 3}
    /\ ev.text = <<"a", " ", " ", "B">>

\* The text, trimmed and case-folded, is neither the answer nor an alternative
Wrong(text, question) ==
    \A v \in {question.answer} \cup question.alternative :
        Lower(Strip(text)) # Lower(Strip(v))

QuestionFrame ==
    /\ scores' = scores
    /\ QuestionTimers(tasks') = QuestionTimers(tasks)
    /\ \A d \in DictIds :
         /\ quiz'[d].index = quiz[d].index
         /\ quiz'[d].generation = quiz[d].generation
         /\ quiz'[d].answered = quiz[d].answered
         /\ quiz'[d].current_points = quiz[d].current_points
         /\ quiz'[d].revealed = quiz[d].revealed

\* C23: a message whose text matches neither the answer nor an alternative of
\* the question it is compared with changes no score, no index, generation,
\* resolved flag, reward tier or revealed set, and no pending reveal tick or
\* timeout; also when it is compared after a lazily expired mute.
C23_WrongAnswerNoEffect ==
    [][ /\ \A u \in Users, text \in Texts :
             ( /\ cur # 0
               /\ quiz[cur].has_q
               /\ Wrong(text, bank[(quiz[cur].index % Len(bank)) + 1])
               /\ handle_answer(u, text) )
             => QuestionFrame
        /\ ( /\ h.pc = "unmute"
             /\ Wrong(h.text, bank[h.idx + 1])
             /\ AnswerAfterUnmute )
             => ( QuestionFrame /\ h' = Idle ) ]_vars

\* A wrong text was compared after a lazily expired mute: the handler is done,
\* nothing is credited and the question is still open with its timeout armed
C23_WrongAfterUnmute ==
    /\ ev.type = "lazy_unmute"
    /\ h.pc = "idle"
    /\ ev.d = cur
    /\ quiz[cur].accepting
    /\ ~quiz[cur].answered
    /\ \A u \in Users : scores[u] = 0
    /\ \E t \in tasks : /\ t.kind = "timeout"
                        /\ t.d = cur
                        /\ t.gen = quiz[cur].generation
                        /\ t.pc = "sleep"

-----------------------------------------------------------------------------
(* A round with teams, a mute grant and a double-score tag that is restarted *)

\* The chat after /group: a quiz dict that holds the two teams and no round
InitRestart ==
    /\ bank = MainBank
    /\ hint_usage = NoUsage
    /\ budget = Budget(1 + MaxRestarts, MaxGroups, MaxGives, 1)
    /\ players = Users
    /\ cur = 1
    /\ ndicts = 1
    /\ quiz = [d \in DictIds |-> EmptyQuiz]
    /\ scores = NoScores
    /\ \E team_a \in SUBSET Users :
         /\ Cardinality(team_a) = NumUsers \div 2
         /\ teams = [A |-> team_a, B |-> Users \ team_a]
    /\ mute_enabled = NoFlags
    /\ mute_uses = NoUses
    /\ double_tags = NoTags
    /\ last_winning_team = "none"
    /\ winning_streak = 0
    /\ tasks = {}
    /\ h = Idle
    /\ ev = [Ev("split_groups") EXCEPT !.sent = "teams"]
    /\ hist = {}

WhileMuted == IF cur = 0 THEN FALSE ELSE quiz[cur].muted_left > 0

Restartable == budget.starts > 0

QuickRound ==
    IF Restartable /\ cur # 0 /\ h.pc = "idle"
    THEN quiz[cur].q_age < 1
    ELSE TRUE

\* In this scenario the admin starts the round once the teams are configured
\* and restarts it while a team is silenced; until then every message comes
\* within the first second of its question, and after the last restart nobody
\* writes and the questions time out
NextRestart ==
    \/ (BeforeStart \/ WhileMuted) /\ start
    \/ Restartable /\ \E u \in Users, text \in Texts : handle_answer(u, text)
    \/ HandlerStep
    \/ TaskStep
    \/ HandlerPrompt /\ QuickRound /\ Tick
    \/ BeforeStart /\ \E count \in 1..MaxGrant : givemute("A", count)
    \/ BeforeStart /\ enabledouble("A", "geo")
    \/ BeforeStart /\ split_groups
    \/ Restartable /\ \E u \in Users : mute(u)
    \/ MuteSet
    \/ MuteArm
    \/ AnswerAfterUnmute
    \/ MuteTaskStep

SpecRestart == InitRestart /\ [][NextRestart]_vars

\* C24: /start keeps the teams, the mute grants and remaining uses, a silence
\* in force (team and remaining time) and the double-score tags of the quiz it
\* replaces, and the new quiz has no scores, is not resolved and has no streak.
C24_RestartPreserves ==
    [][ start =>
          /\ teams' = teams
          /\ mute_enabled' = mute_enabled
          /\ mute_uses' = mute_uses
          /\ double_tags' = double_tags
          /\ cur # 0 => /\ quiz'[cur'].muted_team = quiz[cur].muted_team
                        /\ quiz'[cur'].muted_left = quiz[cur].muted_left
          /\ scores' = NoScores
          /\ ~quiz'[cur'].answered
          /\ winning_streak' = 0
          /\ last_winning_team' = "none" ]_vars

\* A round restarted while a silence is in force: teams, the used-up grant,
\* the silence and the tag are those of the first round
C24_RestartedWhileMuted ==
    /\ ev.type = "start"
    /\ cur = 3
    /\ quiz[2].has_q
    /\ teams # NoTeams
    /\ mute_enabled.A
    /\ double_tags.A = {"geo"}
    /\ quiz[cur].muted_team = "B"
    /\ quiz[cur].muted_left > 0
    /\ scores = NoScores

\* C25: the teams are changed by /group only: no /start, no question
\* transition, no resolution by answer or timeout and no finalization of the
\* round adds, removes or changes a team.
C25_TeamsOnlyByGroup ==
    [][ teams' # teams => split_groups ]_vars

\* C26: /group leaves a silence in force (the silenced team and the time it
\* still lasts), the mute grants, the use counters and the double-score tags
\* as they are.
C26_GroupKeepsMuteAndTags ==
    [][ split_groups =>
          /\ mute_enabled' = mute_enabled
          /\ mute_uses' = mute_uses
          /\ double_tags' = double_tags
          /\ cur # 0 => /\ quiz'[cur'].muted_team = quiz[cur].muted_team
                        /\ quiz'[cur'].muted_left = quiz[cur].muted_left ]_vars

-----------------------------------------------------------------------------
(* Team formation over the participants seen so far *)

\* Everyone who may write in the chat; those beyond Users never answer
Known == 1..MaxKnown

\* Some participants have been seen before the first command
InitTeams ==
    /\ bank = MainBank
    /\ hint_usage = NoUsage
    /\ budget = Budget(1, MaxGroups, 0, 0)
    /\ players \in SUBSET Known
    /\ cur = 0
    /\ ndicts = 0
    /\ quiz = [d \in DictIds |-> EmptyQuiz]
    /\ scores = NoScores
    /\ teams = NoTeams
    /\ mute_enabled = NoFlags
    /\ mute_uses = NoUses
    /\ double_tags = NoTags
    /\ last_winning_team = "none"
    /\ winning_streak = 0
    /\ tasks = {}
    /\ h = Idle
    /\ ev = Ev("init")
    /\ hist = {}

\* A record of the known players that keeps the latest sender only
RecordUser_LatestOnly(known, u) == {u}

\* record_user: players[user.id] = user.full_name
RecordUser(known, u) == known \cup {u}

\* seen_message: any message in the group records its sender
seen_message(u) ==
    /\ h.pc = "idle"
    /\ players' = RecordUser(players, u)
    /\ ev' = [Ev("seen") EXCEPT !.u = u]
    /\ UNCHANGED << hint_usage, bank, budget, cur, ndicts, quiz, RoundVars, tasks, h, hist >>

NextTeams ==
    \/ start
    \/ \E u \in Users, text \in Texts : handle_answer(u, text)
    \/ HandlerStep
    \/ TaskStep
    \/ HandlerPrompt /\ Tick
    \/ split_groups
    \/ \E u \in Known : seen_message(u)

SpecTeams == InitTeams /\ [][NextTeams]_vars

\* C27: a /group over n >= 2 known participants leaves two disjoint teams that
\* together are exactly the known participants, A of size floor(n/2) and B of
\* size ceil(n/2); and no step ever puts a participant into both teams.
C27_TeamsPartition ==
    [][ /\ teams'.A \cap teams'.B = {}
        /\ ( split_groups /\ Cardinality(players) >= 2 ) =>
              LET n == Cardinality(players)
              IN  /\ teams'.A \cup teams'.B = players
                  /\ 2 * Cardinality(teams'.A) \in {n - 1, n}
                  /\ 2 * Cardinality(teams'.B) \in {n, n + 1} ]_vars

\* Teams formed over three known participants: one in A, two in B
C27_ThreeSplit ==
    /\ ev.type = "split_groups"
    /\ Cardinality(players) = 3
    /\ Cardinality(teams.A) = 1
    /\ Cardinality(teams.B) = 2
    /\ teams.A \cup teams.B = players

-----------------------------------------------------------------------------
(* The admin commands with their sender and their arguments *)

\* bot_data["ADMIN_USER_ID"]; 0 stands for None
ADMIN_USER_ID == 1

\* A check that lets everybody through
RequireAdmin_Anyone(u) == TRUE

\* require_admin: True when no admin is configured or the sender is the admin
RequireAdmin(u) == ADMIN_USER_ID = 0 \/ u = ADMIN_USER_ID

\* The words after the command: a team token, then a count, points or tag
TeamTokens == { <<"B">>, <<"z">> }

Numerals == { <<"1">>, <<"0">>, <<"-", "1">>, <<"z">> }

TagWords == { <<"g", "e", "o">> }

ArgLists(second) ==
    { <<>> } \cup { <<token>> : token \in TeamTokens }
             \cup { <<token, word>> : token \in TeamTokens, word \in second }

Digits == { "0", "1", "2" }

DigitVal(ch) == CASE ch = "0" -> 0 [] ch = "1" -> 1 [] OTHER -> 2

RECURSIVE NatVal(_)
NatVal(s) ==
    IF Len(s) = 0 THEN 0
    ELSE 10 * NatVal(SubSeq(s, 1, Len(s) - 1)) + DigitVal(s[Len(s)])

\* A parser that reads every word as 1
ParseInt_Lenient(raw) == [ok |-> TRUE, val |-> 1]

\* int(raw): an optional sign and digits, ValueError otherwise
ParseInt(raw) ==
    LET neg  == Len(raw) > 0 /\ raw[1] = "-"
        body == IF neg THEN Tail(raw) ELSE raw
    IN  IF Len(body) = 0 \/ \E i \in 1..Len(body) : body[i] \notin Digits
        THEN [ok |-> FALSE, val |-> 0]
        ELSE [ok |-> TRUE, val |-> IF neg THEN 0 - NatVal(body) ELSE NatVal(body)]

\* token.lower() in ("a", "b"), else the configured team names, "A" and "B"
ResolveLabel(token) ==
    CASE Lower(token) = <<"a">> -> "A"
      [] Lower(token) = <<"b">> -> "B"
      [] OTHER -> "none"

TagOf(word) == IF word = <<"g", "e", "o">> THEN "geo" ELSE "sci"

AllButEv ==
    << hint_usage, bank, budget, players, cur, ndicts, quiz, scores, teams, mute_enabled,
       mute_uses, double_tags, last_winning_team, winning_streak, tasks, h,
       hist >>

\* require_admin returned False: a DM to the sender, then return
Denied(u) ==
    /\ h.pc = "idle"
    /\ ev' = [Ev("denied") EXCEPT !.u = u, !.sent = "dm"]
    /\ UNCHANGED AllButEv

\* A reply that says what is wrong with the command, then return
Rejected(u, why) ==
    /\ h.pc = "idle"
    /\ ev' = [Ev("rejected") EXCEPT !.u = u, !.sent = why]
    /\ UNCHANGED AllButEv

start_cmd(u) == IF RequireAdmin(u) THEN start ELSE Denied(u)

group_cmd(u) == IF RequireAdmin(u) THEN split_groups ELSE Denied(u)

givemute_cmd(u, args) ==
    IF ~RequireAdmin(u) THEN Denied(u)
    ELSE IF Len(args) < 2 THEN Rejected(u, "usage")
    ELSE IF ~ParseInt(args[2]).ok THEN Rejected(u, "invalid")
    ELSE IF ParseInt(args[2]).val <= 0 THEN Rejected(u, "not_positive")
    ELSE IF ~HasTeams THEN Rejected(u, "no_teams")
    ELSE IF ResolveLabel(args[1]) = "none" THEN Rejected(u, "unknown_team")
    ELSE givemute(ResolveLabel(args[1]), ParseInt(args[2]).val)

\* /removemute <team>: the grant is withdrawn; a silence on that team ends and
\* the expiry tasks of the quiz are cancelled
removemute(label) ==
    /\ h.pc = "idle"
    /\ mute_enabled' = [mute_enabled EXCEPT ![label] = FALSE]
    /\ mute_uses' = [mute_uses EXCEPT ![label] = 0]
    /\ IF quiz[cur].muted_team = label
       THEN /\ quiz' = [quiz EXCEPT ![cur].muted_team = "none",
                                    ![cur].muted_left = 0]
            /\ tasks' = { t \in tasks : ~(t.kind = "mute" /\ t.d = cur) }
       ELSE UNCHANGED << quiz, tasks >>
    /\ ev' = [Ev("removemute") EXCEPT !.sent = "reply"]
    /\ UNCHANGED << hint_usage, bank, budget, players, cur, ndicts, scores, teams,
                    double_tags, last_winning_team, winning_streak, h, hist >>

removemute_cmd(u, args) ==
    IF ~RequireAdmin(u) THEN Denied(u)
    ELSE IF Len(args) < 1 THEN Rejected(u, "usage")
    ELSE IF ~HasTeams THEN Rejected(u, "no_teams")
    ELSE IF ResolveLabel(args[1]) = "none" THEN Rejected(u, "unknown_team")
    ELSE removemute(ResolveLabel(args[1]))

enabledouble_cmd(u, args) ==
    IF ~RequireAdmin(u) THEN Denied(u)
    ELSE IF Len(args) < 2 THEN Rejected(u, "usage")
    ELSE IF ~HasTeams THEN Rejected(u, "no_teams")
    ELSE IF ResolveLabel(args[1]) = "none" THEN Rejected(u, "unknown_team")
    ELSE enabledouble(ResolveLabel(args[1]), TagOf(args[2]))

\* /disabledouble <team> <tag>: the tag is discarded when the team has it
disabledouble(label, tag) ==
    /\ h.pc = "idle"
    /\ double_tags' = [double_tags EXCEPT ![label] = @ \ {tag}]
    /\ ev' = [Ev("disabledouble") EXCEPT
                !.sent = IF tag \in double_tags[label] THEN "reply"
                                                       ELSE "not_enabled"]
    /\ UNCHANGED << hint_usage, bank, budget, players, cur, ndicts, quiz, scores, teams,
                    mute_enabled, mute_uses, last_winning_team,
                    winning_streak, tasks, h, hist >>

disabledouble_cmd(u, args) ==
    IF ~RequireAdmin(u) THEN Denied(u)
    ELSE IF Len(args) < 2 THEN Rejected(u, "usage")
    ELSE IF ~HasTeams THEN Rejected(u, "no_teams")
    ELSE IF ResolveLabel(args[1]) = "none" THEN Rejected(u, "unknown_team")
    ELSE disabledouble(ResolveLabel(args[1]), TagOf(args[2]))

\* /add <team> <points>: team_scores[label] grows by points, of either sign
add_points(label, points) ==
    /\ h.pc = "idle"
    /\ quiz[cur].team_scores[label] + points \in -MaxTeamPoints..MaxTeamPoints
    /\ IF teams[label] = {}
       THEN /\ ev' = [Ev("rejected") EXCEPT !.sent = "no_members"]
            /\ UNCHANGED quiz
       ELSE /\ quiz' = [quiz EXCEPT ![cur].team_scores[label] = @ + points]
            /\ ev' = [Ev("add_points") EXCEPT !.pts = points, !.sent = "reply"]
    /\ UNCHANGED << hint_usage, bank, budget, players, cur, ndicts, scores, teams,
                    mute_enabled, mute_uses, double_tags, last_winning_team,
                    winning_streak, tasks, h, hist >>

add_cmd(u, args) ==
    IF ~RequireAdmin(u) THEN Denied(u)
    ELSE IF Len(args) < 2 THEN Rejected(u, "usage")
    ELSE IF ~ParseInt(args[2]).ok THEN Rejected(u, "invalid")
    ELSE IF ~HasTeams THEN Rejected(u, "no_teams")
    ELSE IF ResolveLabel(args[1]) = "none" THEN Rejected(u, "unknown_team")
    ELSE add_points(ResolveLabel(args[1]), ParseInt(args[2]).val)

InitAdmin ==
    /\ bank = << MainBank[1] >>
    /\ hint_usage = NoUsage
    /\ budget = Budget(1, MaxGroups, MaxGives, 1)
    /\ InitCommon

\* In this scenario the admin configures the teams before the round is
\* started; everybody else may try any command at any time, and is drawn
\* without arguments because the denial comes before they are read; the
\* configuration takes no time
Configuring(u, args) ==
    IF u = ADMIN_USER_ID THEN BeforeStart ELSE args = <<>>

NextAdmin ==
    \/ \E u \in Users : start_cmd(u)
    \/ \E u \in Users : Configuring(u, <<>>) /\ group_cmd(u)
    \/ \E u \in Users, args \in ArgLists(Numerals) :
         Configuring(u, args) /\ givemute_cmd(u, args)
    \/ \E u \in Users, args \in ArgLists(Numerals) :
         Configuring(u, args) /\ removemute_cmd(u, args)
    \/ \E u \in Users, args \in ArgLists(TagWords) :
         Configuring(u, args) /\ enabledouble_cmd(u, args)
    \/ \E u \in Users, args \in ArgLists(TagWords) :
         Configuring(u, args) /\ disabledouble_cmd(u, args)
    \/ \E u \in Users, args \in ArgLists(Numerals) :
         Configuring(u, args) /\ add_cmd(u, args)
    \/ BeforeStart /\ \E u \in Users : mute(u)
    \/ MuteSet
    \/ MuteArm
    \/ MuteTaskStep
    \/ \E u \in Users, text \in Texts : handle_answer(u, text)
    \/ AnswerAfterUnmute
    \/ HandlerStep
    \/ TaskStep
    \/ HandlerPrompt /\ ~BeforeStart /\ Tick

SpecAdmin == InitAdmin /\ [][NextAdmin]_vars

NonAdmin(u) == ADMIN_USER_ID # 0 /\ u # ADMIN_USER_ID

PrivilegedCommand(u) ==
    \/ start_cmd(u)
    \/ group_cmd(u)
    \/ \E args \in ArgLists(Numerals) :
         \/ givemute_cmd(u, args)
         \/ removemute_cmd(u, args)
         \/ add_cmd(u, args)
    \/ \E args \in ArgLists(TagWords) :
         \/ enabledouble_cmd(u, args)
         \/ disabledouble_cmd(u, args)

\* C28: /start, /group, /givemute, /removemute, /enabledouble, /disabledouble
\* and /add sent by somebody who is not the configured admin change nothing of
\* the round, the teams, the mute state and the tags.
C28_DeniedChangesNothing ==
    [][ \/ UNCHANGED << cur, ndicts, quiz, scores, teams, mute_enabled,
                        mute_uses, double_tags, last_winning_team,
                        winning_streak, tasks, h >>
        \/ ~ \E u \in Users : NonAdmin(u) /\ PrivilegedCommand(u) ]_vars

\* A command was denied while a question is open and the teams, a grant and a
\* tag are configured
C28_DeniedDuringRound ==
    /\ ev.type = "denied"
    /\ NonAdmin(ev.u)
    /\ cur # 0
    /\ quiz[cur].accepting
    /\ ~quiz[cur].answered
    /\ teams # NoTeams
    /\ mute_enabled.B
    /\ double_tags.B = {"geo"}

KnownTokens == { <<"a">>, <<"A">>, <<"b">>, <<"B">> }

BadTeam(args, n) == Len(args) < n \/ args[1] \notin KnownTokens

BadCount(args) == BadTeam(args, 2) \/ args[2] \notin { <<"1">>, <<"2">> }

BadPoints(args) == BadTeam(args, 2) \/ args[2] = <<"z">>

\* C29: /givemute, /removemute, /add, /enabledouble and /disabledouble with
\* a missing argument, an unknown team, or a count that is not a positive
\* number (points that are not a number) change no mute grant, no use counter,
\* no silence in force, no double-score tag and no team score.
C29_MalformedChangesNothing ==
    [][ \/ /\ UNCHANGED << mute_enabled, mute_uses, double_tags >>
           /\ \A d \in DictIds :
                /\ quiz'[d].muted_team = quiz[d].muted_team
                /\ quiz'[d].muted_left = quiz[d].muted_left
                /\ quiz'[d].team_scores = quiz[d].team_scores
        \/ ~ \E u \in Users :
              \/ \E args \in ArgLists(Numerals) :
                   \/ BadCount(args) /\ givemute_cmd(u, args)
                   \/ BadTeam(args, 1) /\ removemute_cmd(u, args)
                   \/ BadPoints(args) /\ add_cmd(u, args)
              \/ \E args \in ArgLists(TagWords) :
                   \/ BadTeam(args, 2) /\ enabledouble_cmd(u, args)
                   \/ BadTeam(args, 2) /\ disabledouble_cmd(u, args) ]_vars

\* The admin's command was rejected for its count while team B holds a grant,
\* a tag and a point and team A is silenced
C29_RejectedWhileConfigured ==
    /\ ev.type = "rejected"
    /\ ev.u = ADMIN_USER_ID
    /\ ev.sent = "not_positive"
    /\ cur # 0
    /\ mute_enabled.B
    /\ double_tags.B = {"geo"}
    /\ quiz[cur].muted_team = "A"
    /\ quiz[cur].muted_left > 0
    /\ quiz[cur].team_scores.B = 1

\* The step credits participant u for a text that matches the question compared
CreditOf(u) ==
    /\ ev'.type = "credit"
    /\ ev'.u = u
    /\ ev'.pts > 0
    /\ scores'[u] = scores[u] + ev'.pts
    /\ \A v \in Users \ {u} : scores'[v] = scores[v]
    /\ \/ \E text \in Texts : /\ ~Wrong(text, bank[ev'.idx + 1])
                              /\ handle_answer(u, text)
       \/ /\ h.pc = "unmute"
          /\ h.u = u
          /\ ~Wrong(h.text, bank[h.idx + 1])
          /\ AnswerAfterUnmute

\* C30: from /start until the round is finalized, a step that changes the
\* scores either credits one participant with the positive reward of a
\* matching answer, leaving the others' scores alone, or is /start, which
\* sets every score to 0.
C30_ScoresGrowByCredit ==
    [][ \/ scores' = scores
        \/ cur' = 0
        \/ \E u \in Users : CreditOf(u)
        \/ start /\ scores' = NoScores ]_vars

\* A participant credited for the second time in a round
C30_SecondCredit ==
    /\ ev.type = "credit"
    /\ cur # 0
    /\ ev.d = cur
    /\ ev.pts > 0
    /\ scores[ev.u] > ev.pts

\* The team label of a winner, "?" for a participant in no team
WinnerLabel(u) == IF UserLabel(u) = "none" THEN "?" ELSE UserLabel(u)

\* C31: a credit whose winner is in the team that won last adds 1 to the
\* streak and keeps the last winning team; any other credit sets the streak to
\* 1 and the last winning team to the winner's; no other step of a running
\* round changes either, so the streak counts the latest consecutive credits
\* of one team.
C31_StreakCountsSameTeam ==
    [][ \/ /\ winning_streak' = winning_streak
           /\ last_winning_team' = last_winning_team
        \/ /\ ev'.type = "credit"
           /\ IF WinnerLabel(ev'.u) = last_winning_team
              THEN /\ winning_streak' = winning_streak + 1
                   /\ last_winning_team' = last_winning_team
              ELSE /\ winning_streak' = 1
                   /\ last_winning_team' = WinnerLabel(ev'.u)
        \/ /\ ev'.type \in {"start", "finalized"}
           /\ winning_streak' = 0
           /\ last_winning_team' = "none" ]_vars

\* Team B wins the second question after team A won the first: the streak is
\* back at 1
C31_StreakBroken ==
    /\ ev.type = "credit"
    /\ ev.idx = 1
    /\ UserLabel(ev.u) = "B"
    /\ last_winning_team = "B"
    /\ winning_streak = 1
    /\ \E u \in Users : UserLabel(u) = "A" /\ scores[u] > 0

\* C32: in every state, a quiz dict whose accepting_answers flag is true has
\* answered false: a resolution, by answer or by timeout, sets answered and
\* clears accepting_answers in one step.
C32_AcceptingImpliesOpen ==
    \A d \in DictIds : quiz[d].accepting => ~quiz[d].answered

\* chat_data["quiz"].get("generation", 0) of the round that is running
Generation == IF cur = 0 THEN 0 ELSE quiz[cur].generation

\* C33: as long as there is a round, its generation never decreases, and a
\* step that resets the question state, after a restart too, raises it by
\* exactly 1.
C33_GenerationGrows ==
    [][ cur' # 0 =>
          /\ Generation' >= Generation
          /\ ( /\ ev'.type \in {"start_send", "answer_advance",
                                 "timeout_advance"}
               /\ ev'.sent # "scores"
               /\ \/ StartSendQuestion
                  \/ AnswerAdvance
                  \/ \E t \in tasks : TimeoutAdvance(t) )
               => Generation' = Generation + 1 ]_vars


\* The tasks of the hint_tasks list that send_question pops from the running
\* round's state
OldQuestionTasks(ts) ==
    IF cur = 0 THEN {}
    ELSE { x \in ts : /\ x.kind \in {"hint", "timeout"}
                      /\ x.d = cur
                      /\ quiz[cur].hint_gen # 0
                      /\ x.gen = quiz[cur].hint_gen }

\* The timeout task t while it is inside send_question
Continues(ts, t) ==
    { c \in ts : /\ c.kind = "timeout"
                 /\ c.d = t.d
                 /\ c.gen = t.gen
                 /\ c.pc \in {"sendq", "scores"} }

\* C34: when a timeout task advances the round, the cancellation of the
\* question reset leaves that task running and removes every other pending
\* task of the question it replaces; the task then sends the next question,
\* opens it and arms its timers, or finalizes the round.
C34_TimeoutSparesItself ==
    [][ \A t \in tasks :
          /\ ( /\ t.kind = "timeout"
               /\ t.pc = "countdown"
               /\ cur # 0
               /\ TimeoutAdvance(t)
               /\ quiz[cur].has_q )
               => /\ Continues(tasks', t) # {}
                  /\ ev'.sent # "scores"
                       => OldQuestionTasks(tasks) \cap tasks' = {}
                  /\ ev'.sent = "scores"
                       => tasks' \ Continues(tasks', t) = tasks \ {t}
          /\ ( /\ t.kind = "timeout"
               /\ t.pc = "sendq"
               /\ TimeoutQuestionSent(t) )
               => /\ quiz'[t.qd].accepting
                  /\ quiz'[t.qd].index = t.idx
                  /\ \A k \in 1..Len(HINT_POINT_STEPS) :
                       \E x \in tasks' : /\ x.kind = "hint"
                                         /\ x.d = t.qd
                                         /\ x.gen = t.sgen
                                         /\ x.k = k
                                         /\ x.pc = "sleep"
                  /\ \E x \in tasks' : /\ x.kind = "timeout"
                                       /\ x.d = t.qd
                                       /\ x.gen = t.sgen
                                       /\ x.pc = "sleep"
          /\ ( /\ t.kind = "timeout"
               /\ t.pc = "scores"
               /\ TimeoutFinalize(t) )
               => cur' = 0 ]_vars

\* A timeout task of the first round has advanced the restarted round and is
\* sending its next question while no timer of the replaced question is left
C34_AdvancedByTimeout ==
    /\ ev.type = "timeout_advance"
    /\ ev.sent # "scores"
    /\ cur # 0
    /\ \E c \in tasks : /\ c.kind = "timeout"
                        /\ c.pc = "sendq"
                        /\ c.qd = cur
                        /\ c.d # cur
    /\ \A x \in tasks : x.pc = "sleep" => x.d # cur


-----------------------------------------------------------------------------
(* Two teams that may both silence each other, no round *)

\* The chat after /group and a grant of /mute to both teams
InitExpiry ==
    /\ bank = MainBank
    /\ hint_usage = NoUsage
    /\ budget = Budget(0, 0, 0, 0)
    /\ players = Users
    /\ cur = 1
    /\ ndicts = 1
    /\ quiz = [d \in DictIds |-> EmptyQuiz]
    /\ scores = NoScores
    /\ \E team_a \in SUBSET Users :
         /\ Cardinality(team_a) = NumUsers \div 2
         /\ teams = [A |-> team_a, B |-> Users \ team_a]
    /\ mute_enabled = [A |-> TRUE, B |-> TRUE]
    /\ mute_uses = [A |-> MaxGrant + 1, B |-> MaxGrant]
    /\ double_tags = NoTags
    /\ last_winning_team = "none"
    /\ winning_streak = 0
    /\ tasks = {}
    /\ h = Idle
    /\ ev = [Ev("givemute") EXCEPT !.sent = "reply"]
    /\ hist = {}

NextExpiry ==
    \/ \E u \in Users : mute(u)
    \/ MuteSet
    \/ MuteArm
    \/ MuteTaskStep
    \/ HandlerPrompt /\ Tick

SpecExpiry == InitExpiry /\ [][NextExpiry]_vars

\* C35: an expiry task that wakes while the stored silence is of another team
\* or still has time left changes nothing of the mute state; a silence is
\* cleared by an expiry task only when it is the task's team and its window
\* has elapsed.
C35_ExpiryKeepsLaterSilence ==
    [][ \A t \in tasks :
          ( /\ t.kind = "mute"
            /\ t.wake = 0
            /\ MuteExpire(t) )
            => \A d \in DictIds :
                 \/ /\ quiz'[d].muted_team = quiz[d].muted_team
                    /\ quiz'[d].muted_left = quiz[d].muted_left
                 \/ /\ d = t.d
                    /\ quiz[d].muted_team = t.label
                    /\ quiz[d].muted_left = 0
                    /\ quiz'[d].muted_team = "none" ]_vars

\* The expiry task of an earlier /mute is due while the silence of a later
\* /mute on the same team still has time left and its own task is sleeping
C35_EarlierExpiryDue ==
    /\ cur # 0
    /\ quiz[cur].muted_left > 0
    /\ \E t1, t2 \in tasks :
         /\ t1.kind = "mute" /\ t2.kind = "mute"
         /\ t1.pc = "sleep" /\ t1.wake = 0
         /\ t1.label = quiz[cur].muted_team
         /\ t2.label = t1.label
         /\ t2.wake = quiz[cur].muted_left


\* C36: when the expiry task of a silence wakes and the running round's state
\* holds that silence with its window elapsed, the step clears the silence
\* from the running round's state, also when the round was restarted after
\* the /mute.
C36_CarriedSilenceExpires ==
    [][ \A t \in tasks :
          ( /\ t.kind = "mute"
            /\ t.wake = 0
            /\ cur # 0
            /\ MuteExpire(t)
            /\ quiz[cur].muted_team = t.label
            /\ quiz[cur].muted_left = 0 )
            => quiz'[cur].muted_team = "none" ]_vars

\* The same for the expiry tasks armed in the round that is running
C36_OwnSilenceExpires ==
    [][ \A t \in tasks :
          ( /\ t.kind = "mute"
            /\ t.wake = 0
            /\ t.d = cur
            /\ MuteExpire(t)
            /\ quiz[cur].muted_team = t.label
            /\ quiz[cur].muted_left = 0 )
            => quiz'[cur].muted_team = "none" ]_vars


-----------------------------------------------------------------------------
(* Teams that are formed again while participants keep arriving, no round *)

InitRegroup ==
    /\ bank = MainBank
    /\ hint_usage = NoUsage
    /\ budget = Budget(0, MaxGroups + 1, MaxGives, 1)
    /\ players \in SUBSET Known
    /\ cur = 0
    /\ ndicts = 0
    /\ quiz = [d \in DictIds |-> EmptyQuiz]
    /\ scores = NoScores
    /\ teams = NoTeams
    /\ mute_enabled = NoFlags
    /\ mute_uses = NoUses
    /\ double_tags = NoTags
    /\ last_winning_team = "none"
    /\ winning_streak = 0
    /\ tasks = {}
    /\ h = Idle
    /\ ev = Ev("init")
    /\ hist = {}

NextRegroup ==
    \/ split_groups
    \/ \E u \in Known : seen_message(u)
    \/ \E label \in {"A", "B"}, count \in 1..MaxGrant : givemute(label, count)
    \/ \E label \in {"A", "B"} : enabledouble(label, "geo")
    \/ \E u \in Known : mute(u)
    \/ MuteSet
    \/ MuteArm
    \/ MuteTaskStep
    \/ HandlerPrompt /\ Tick

SpecRegroup == InitRegroup /\ [][NextRegroup]_vars

-----------------------------------------------------------------------------
(* /hint: a private hint for the current question, with a quota per user *)

MAX_HINTS == 3

\* A quota test that never refuses
QuotaSpent_Never(count) == FALSE

\* if entry["count"] >= MAX_HINTS
QuotaSpent(count) == count >= MAX_HINTS

HintRefused(u, why) ==
    /\ ev' = [Ev("hint_refused") EXCEPT !.u = u, !.sent = why]
    /\ h' = h

\* /hint up to the await of _send_hint_dm; every refusal is a message to the
\* sender followed by return
hint(u) ==
    /\ h.pc = "idle"
    /\ IF cur = 0
       THEN HintRefused(u, "not_started")
       ELSE IF ~quiz[cur].has_q
       THEN HintRefused(u, "not_started")
       ELSE LET idx == quiz[cur].index % Len(bank)
            IN  IF ~bank[idx + 1].hints
                THEN HintRefused(u, "no_hint")
                ELSE IF QuotaSpent(hint_usage[u].count)
                THEN HintRefused(u, "no_more_hints")
                ELSE IF idx \in hint_usage[u].questions
                THEN HintRefused(u, "already_received")
                ELSE /\ h' = [Idle EXCEPT !.pc = "hint_dm", !.u = u,
                                          !.idx = idx, !.qd = cur]
                     /\ ev' = [Ev("hint_cmd") EXCEPT !.u = u, !.idx = idx,
                                                     !.sent = "dm"]
    /\ UNCHANGED << hint_usage, bank, budget, players, cur, ndicts, quiz,
                    RoundVars, tasks, hist >>

\* /hint after _send_hint_dm returned: the hint is counted
HintDelivered ==
    /\ h.pc = "hint_dm"
    /\ hint_usage' = [hint_usage EXCEPT
                         ![h.u].count = @ + 1,
                         ![h.u].questions = @ \cup {h.idx},
                         ![h.u].delivered = Append(@, h.idx)]
    /\ h' = Idle
    /\ ev' = [Ev("hint_dm") EXCEPT !.u = h.u, !.idx = h.idx, !.sent = "hint"]
    /\ UNCHANGED << bank, budget, players, cur, ndicts, quiz, RoundVars,
                    tasks, hist >>

\* /hint when _send_hint_dm raises: a reply in the group, nothing is counted
HintDmFails ==
    /\ h.pc = "hint_dm"
    /\ h' = Idle
    /\ ev' = [Ev("hint_dm_failed") EXCEPT !.u = h.u, !.idx = h.idx,
                                          !.sent = "could_not_dm"]
    /\ UNCHANGED << hint_usage, bank, budget, players, cur, ndicts, quiz,
                    RoundVars, tasks, hist >>

\* questions.json with MAX_HINTS + 1 questions that have hints and one that
\* has none
HintBank ==
    [ i \in 1..(MAX_HINTS + 2) |->
        [ answer |-> <<"b">>, alternative |-> {}, tags |-> {},
          hints |-> i <= MAX_HINTS + 1 ] ]

InitHint ==
    /\ bank = HintBank
    /\ hint_usage = NoUsage
    /\ budget = Budget(1 + MaxRestarts, 0, 0, 0)
    /\ InitCommon

\* In this scenario a round is started when none is running
NoRound == cur = 0

\* Nobody answers; participants ask for a hint when a question has just been
\* opened or while the timeout task is about to advance the round
JustOpened == IF cur = 0 THEN FALSE ELSE quiz[cur].q_age = 0

HintMoment ==
    \/ cur = 0
    \/ JustOpened
    \/ \E t \in tasks : t.kind = "timeout" /\ t.pc = "countdown" /\ t.wake = 0

\* The DM is delivered or refused within the second
DmPrompt == h.pc # "hint_dm"

NextHint ==
    \/ NoRound /\ start
    \/ StartSendQuestion
    \/ HandlerQuestionSent
    \/ TaskStep
    \/ HandlerPrompt /\ DmPrompt /\ Tick
    \/ HintMoment /\ \E u \in Users : hint(u)
    \/ HintDelivered
    \/ HintDmFails

SpecHint == InitHint /\ [][NextHint]_vars


\* C38: per participant, the hints DMed by /hint are at most 3 and no two are
\* for the same question index, and the stored quota is exactly what was
\* delivered: a refused attempt or a failed delivery counts for nothing.
C38_HintQuota ==
    \A u \in Users :
        LET e == hint_usage[u]
            n == Len(e.delivered)
        IN  /\ n <= 3
            /\ \A i, j \in 1..n : i # j => e.delivered[i] # e.delivered[j]
            /\ e.count = n
            /\ e.questions = { e.delivered[i] : i \in 1..n }

\* A participant who received three hints asks for one on a fourth question
\* that has hints and is refused
C38_FourthRefused ==
    /\ ev.type = "hint_refused"
    /\ ev.sent = "no_more_hints"
    /\ Len(hint_usage[ev.u].delivered) = 3
    /\ cur # 0
    /\ quiz[cur].index \notin hint_usage[ev.u].questions


-----------------------------------------------------------------------------
(* How much the reveal ticks show *)

\* Longest answer for which the reveal counts are computed
MaxRevealLen == 12

\* math.ceil(len(reveal_order) * ratio) for the tick of step k
TargetCount(n, k) == Ceil10(n * HINT_POINT_STEPS[k].ratio)

\* C39: for an answer with at least 3 non-blank characters no reveal tick
\* shows every position: each target count is at most ceil(0.6 * n) and below
\* n, the question's revealed set always misses a non-blank position and its
\* hint text holds a placeholder; the first tick reveals nothing and lowers
\* the reward below the initial one.
C39_NeverFullyRevealed ==
    /\ \A n \in 3..MaxRevealLen : \A k \in 1..Len(HINT_POINT_STEPS) :
         /\ TargetCount(n, k) <= Ceil10(6 * n)
         /\ TargetCount(n, k) < n
    /\ \A n \in 0..MaxRevealLen : TargetCount(n, 1) = 0
    /\ \A d \in DictIds :
         ( quiz[d].has_q /\ quiz[d].index < Len(bank) ) =>
           LET answer == bank[quiz[d].index + 1].answer
               text == BuildProgressiveHint(answer, quiz[d].revealed)
           IN  Cardinality(Revealable(answer)) >= 3 =>
                 /\ Revealable(answer) \ quiz[d].revealed # {}
                 /\ \E i \in 1..Len(text) : text[i] = "_"
    /\ ( ev.type = "hint" /\ ev.sent = "hint" /\ ev.k = 1 ) =>
           /\ quiz[ev.d].revealed = {}
           /\ quiz[ev.d].current_points = HINT_POINT_STEPS[1].points
           /\ quiz[ev.d].current_points < INITIAL_POINTS

\* The last tick of the answer with three letters has shown two of them
C39_LastTickKeepsOne ==
    /\ ev.type = "hint"
    /\ ev.sent = "hint"
    /\ ev.k = Len(HINT_POINT_STEPS)
    /\ ev.d = cur
    /\ quiz[cur].index = 0
    /\ ~quiz[cur].answered
    /\ Cardinality(Revealable(bank[1].answer)) = 3
    /\ Cardinality(quiz[cur].revealed) = 2

=============================================================================
